---------------------------- MODULE Spec2Model ----------------------------
(***************************************************************************)
(* A model of the saas-cli column specification compiler                   *)
(* (utils/column-parser.ts), the identifier and output-path validators     *)
(* (utils/validation.ts, utils/path.ts) and the 'gen drift' command        *)
(* (commands/gen/drift.ts).                                                *)
(*                                                                         *)
(* JavaScript strings are modelled as sequences of one-character strings,  *)
(* so that split, trim, toLowerCase and the regular expressions of the     *)
(* source are computed character by character.                             *)
(***************************************************************************)
EXTENDS Integers, Sequences, FiniteSets, TLC

VARIABLES
    name, valid,                 \* one call of validateIdentifier(name)
    rawType, normType, normTwice, \* normalizeType(rawType), and normalizeType of its result
    tableName, spec, inSegs,     \* the inputs of one compile
    pc, parts, idx, columns,     \* parseColumnSpec: position, locals
    parsed, sql, drift,          \* results of parseColumnSpec, columnsToSQL, columnsToDrift
    dArgs, dpc, dOut, events,    \* one run of driftAction: arguments, position, output text, observable events
    userPath, baseDir, pathParts, \* the arguments of one call of validateOutputPath, and how they were assembled
    validated,                   \* its result
    maxRetries, attempt, lastError, \* withRateLimitRetry: its argument and its locals
    rpc, rEvents, rOutcome,      \* its position, the calls and waits it made, how it ended
    store, now,                  \* the cache: its entries, and the clock
    cpc, cur, prev, cCount,      \* cachedFetch: its position, this call, the call before, calls made
    tArgs, tpc, tOut, tExit      \* supabase create-table: arguments, position, lines logged, exit

vars == <<name, valid, rawType, normType, normTwice, tableName, spec, inSegs, pc, parts, idx,
          columns, parsed, sql, drift, dArgs, dpc, dOut, events,
          userPath, baseDir, pathParts, validated,
          maxRetries, attempt, lastError, rpc, rEvents, rOutcome,
          store, now, cpc, cur, prev, cCount,
          tArgs, tpc, tOut, tExit>>

identVars == <<name, valid>>
typeVars == <<rawType, normType, normTwice>>
compileVars == <<tableName, spec, inSegs, pc, parts, idx, columns, parsed, sql, drift>>
driftVars == <<dArgs, dpc, dOut, events>>
pathVars == <<userPath, baseDir, pathParts, validated>>
retryVars == <<maxRetries, attempt, lastError, rpc, rEvents, rOutcome>>
cacheVars == <<store, now, cpc, cur, prev, cCount>>
createVars == <<tArgs, tpc, tOut, tExit>>

-----------------------------------------------------------------------------
(* Bounds of the model *)

\* longest identifier candidate handed to validateIdentifier
MaxIdLen == 3

\* most comma-separated segments in a column specification
MaxSegs == 3

\* most modifiers on the column of a one-column specification
MaxMods == 2

\* most components in an output path handed to validateOutputPath
MaxPathLen == 3

\* largest maxRetries handed to withRateLimitRetry
MaxRetriesArg == 3

\* most calls of cachedFetch in one run
MaxCalls == 2

-----------------------------------------------------------------------------
(* JavaScript values and string primitives *)

UpperAlpha == <<"A","B","C","D","E","F","G","H","I","J","K","L","M","N","O","P","Q","R","S","T","U","V","W","X","Y","Z">>

LowerAlpha == <<"a","b","c","d","e","f","g","h","i","j","k","l","m","n","o","p","q","r","s","t","u","v","w","x","y","z">>

DigitChars == <<"0","1","2","3","4","5","6","7","8","9">>

\* characters matched by \s and removed by String.prototype.trim
WhiteSpace == {" ", "\t", "\n", "\r"}

InSeq(c, s) == \E i \in 1..Len(s) : s[i] = c

IsUpper(c) == InSeq(c, UpperAlpha)

IsLower(c) == InSeq(c, LowerAlpha)

IsDigit(c) == InSeq(c, DigitChars)

\* the value undefined (never equal to a string)
Undefined == <<"undefined">>

\* a || b
Or(a, b) == IF a # Undefined /\ a # <<>> THEN a ELSE b

toLowerCaseChar(c) ==
    IF IsUpper(c) THEN LowerAlpha[CHOOSE i \in 1..Len(UpperAlpha) : UpperAlpha[i] = c] ELSE c

toUpperCaseChar(c) ==
    IF IsLower(c) THEN UpperAlpha[CHOOSE i \in 1..Len(LowerAlpha) : LowerAlpha[i] = c] ELSE c

toLowerCase(s) == [i \in 1..Len(s) |-> toLowerCaseChar(s[i])]

toUpperCase(s) == [i \in 1..Len(s) |-> toUpperCaseChar(s[i])]

RECURSIVE trimStart(_)
trimStart(s) == IF s # <<>> /\ Head(s) \in WhiteSpace THEN trimStart(Tail(s)) ELSE s

RECURSIVE trimEnd(_)
trimEnd(s) ==
    IF s # <<>> /\ s[Len(s)] \in WhiteSpace THEN trimEnd(SubSeq(s, 1, Len(s) - 1)) ELSE s

trim(s) == trimEnd(trimStart(s))

\* position of the first c in s, 0 when there is none
IndexOf(s, c) ==
    IF InSeq(c, s)
    THEN CHOOSE i \in 1..Len(s) : s[i] = c /\ \A j \in 1..(i - 1) : s[j] # c
    ELSE 0

\* s.split(c) for a one-character separator: always at least one part
RECURSIVE split(_, _)
split(s, c) ==
    LET i == IndexOf(s, c)
    IN  IF i = 0 THEN <<s>>
        ELSE <<SubSeq(s, 1, i - 1)>> \o split(SubSeq(s, i + 1, Len(s)), c)

\* list.join(sep)
RECURSIVE join(_, _)
join(list, sep) ==
    IF list = <<>> THEN <<>>
    ELSE IF Len(list) = 1 THEN list[1]
    ELSE list[1] \o sep \o join(Tail(list), sep)

startsWith(s, p) == Len(s) >= Len(p) /\ SubSeq(s, 1, Len(p)) = p

\* own keys first, then the members every object literal inherits from Object.prototype
ObjectPrototypeKeys ==
    { <<"c","o","n","s","t","r","u","c","t","o","r">>, <<"_","_","p","r","o","t","o","_","_">>, <<"t","o","S","t","r","i","n","g">>, <<"t","o","L","o","c","a","l","e","S","t","r","i","n","g">>, <<"v","a","l","u","e","O","f">>,
      <<"h","a","s","O","w","n","P","r","o","p","e","r","t","y">>, <<"i","s","P","r","o","t","o","t","y","p","e","O","f">>, <<"p","r","o","p","e","r","t","y","I","s","E","n","u","m","e","r","a","b","l","e">>,
      <<"_","_","d","e","f","i","n","e","G","e","t","t","e","r","_","_">>, <<"_","_","d","e","f","i","n","e","S","e","t","t","e","r","_","_">>, <<"_","_","l","o","o","k","u","p","G","e","t","t","e","r","_","_">>, <<"_","_","l","o","o","k","u","p","S","e","t","t","e","r","_","_">> }

\* the function or object found under an inherited key: truthy, and no string
InheritedMember(key) == <<"Object.prototype">> \o key

\* the two ways a call ends
Throw(err) == [ok |-> FALSE, error |-> err]

Return(value) == [ok |-> TRUE, value |-> value]

\* typeof v === 'string': neither undefined nor a member inherited from Object.prototype
IsString(v) == v # Undefined /\ (v = <<>> \/ Head(v) # "Object.prototype")

\* the TypeError the runtime raises for a call of a method the value does not have
TypeError(text) == [name |-> "TypeError", message |-> text]

HasOwn(map, key) == \E i \in 1..Len(map) : map[i][1] = key

\* map[key] on an object literal given as a list of <<key, value>>
GetProperty(map, key) ==
    IF HasOwn(map, key) THEN map[CHOOSE i \in 1..Len(map) : map[i][1] = key][2]
    ELSE IF key \in ObjectPrototypeKeys THEN InheritedMember(key)
    ELSE Undefined

-----------------------------------------------------------------------------
(* utils/validation.ts *)

IsIdentifierStart(c) == IsLower(c) \/ IsUpper(c) \/ c = "_"

IsIdentifierPart(c) == IsLower(c) \/ IsUpper(c) \/ IsDigit(c) \/ c = "_"

\* the tail [a-zA-Z0-9_]*$ of IDENTIFIER_REGEX, matched from position i
RECURSIVE IdentifierRest(_, _)
IdentifierRest(s, i) ==
    IF i > Len(s) THEN TRUE
    ELSE IF IsIdentifierPart(s[i]) THEN IdentifierRest(s, i + 1)
    ELSE FALSE

\* a plausible slip: the regular expression without its $ anchor
IDENTIFIER_REGEX_unanchored(s) == s # <<>> /\ IsIdentifierStart(s[1])

\* IDENTIFIER_REGEX.test(s), /^[a-zA-Z_][a-zA-Z0-9_]*$/
IDENTIFIER_REGEX(s) == s # <<>> /\ IsIdentifierStart(s[1]) /\ IdentifierRest(s, 2)

validateIdentifier(s) == IDENTIFIER_REGEX(s)

-----------------------------------------------------------------------------
(* utils/column-parser.ts: type normalization *)

normalizeTypeMap ==
    << <<<<"s","t","r">>, <<"t","e","x","t">>>>, <<<<"s","t","r","i","n","g">>, <<"t","e","x","t">>>>, <<<<"v","a","r","c","h","a","r">>, <<"t","e","x","t">>>>, <<<<"c","h","a","r">>, <<"t","e","x","t">>>>,
       <<<<"i","n","t">>, <<"i","n","t","e","g","e","r">>>>, <<<<"n","u","m","b","e","r">>, <<"i","n","t","e","g","e","r">>>>, <<<<"b","i","g","i","n","t">>, <<"b","i","g","i","n","t">>>>,
       <<<<"f","l","o","a","t">>, <<"r","e","a","l">>>>, <<<<"d","o","u","b","l","e">>, <<"r","e","a","l">>>>, <<<<"d","e","c","i","m","a","l">>, <<"r","e","a","l">>>>,
       <<<<"b","o","o","l">>, <<"b","o","o","l","e","a","n">>>>, <<<<"b","o","o","l","e","a","n">>, <<"b","o","o","l","e","a","n">>>>,
       <<<<"d","a","t","e">>, <<"d","a","t","e","t","i","m","e">>>>, <<<<"t","i","m","e","s","t","a","m","p">>, <<"d","a","t","e","t","i","m","e">>>>, <<<<"t","i","m","e","s","t","a","m","p","t","z">>, <<"d","a","t","e","t","i","m","e">>>>,
       <<<<"t","i","m","e">>, <<"d","a","t","e","t","i","m","e">>>>, <<<<"d","a","t","e","t","i","m","e">>, <<"d","a","t","e","t","i","m","e">>>>,
       <<<<"u","u","i","d">>, <<"u","u","i","d">>>>, <<<<"j","s","o","n">>, <<"j","s","o","n","b">>>>, <<<<"j","s","o","n","b">>, <<"j","s","o","n","b">>>>,
       <<<<"b","l","o","b">>, <<"b","l","o","b">>>>, <<<<"b","y","t","e","s">>, <<"b","l","o","b">>>>, <<<<"b","i","n","a","r","y">>, <<"b","l","o","b">>>> >>

\* a plausible slip: the table looked up under the raw name, not the lower-cased one
normalizeType_caseSensitive(type) ==
    Or(GetProperty(normalizeTypeMap, type), toLowerCase(type))

normalizeType(type) ==
    Or(GetProperty(normalizeTypeMap, toLowerCase(type)), toLowerCase(type))

\* a call of normalizeType at run time: a value that is no string has no toLowerCase method
normalizeTypeCall(type) ==
    IF IsString(type) THEN Return(normalizeType(type))
    ELSE Throw(TypeError("type.toLowerCase is not a function"))

-----------------------------------------------------------------------------
(* utils/error.ts and types: the typed error *)

GENERAL_ERROR == 1

\* new CLIError(message, exitCode, hint); the message is its fixed text and the value quoted in it
CLIError(text, quoted, exitCode, hint) ==
    [name |-> "CLIError", message |-> <<text, quoted>>, exitCode |-> exitCode, hint |-> hint]

-----------------------------------------------------------------------------
(* utils/column-parser.ts: the parser *)

\* a descriptor is a record holding only the fields that were assigned
Has(col, field) == field \in DOMAIN col

SetField(col, field, value) == (field :> value) @@ col

\* modifier.match(/^fk\(([^)]+)\)$/i): the captured reference, or Undefined
fkMatch(modifier) ==
    LET n == Len(modifier)
        ref == SubSeq(modifier, 4, n - 1)
    IN  IF /\ n >= 5
           /\ toLowerCase(SubSeq(modifier, 1, 3)) = <<"f","k","(">>
           /\ modifier[n] = ")"
           /\ ~InSeq(")", ref)
        THEN ref
        ELSE Undefined

\* modifier.match(/^default\((.+)\)$/i): the captured value, or Undefined
defaultMatch(modifier) ==
    LET n == Len(modifier)
        value == SubSeq(modifier, 9, n - 1)
    IN  IF /\ n >= 10
           /\ toLowerCase(SubSeq(modifier, 1, 8)) = <<"d","e","f","a","u","l","t","(">>
           /\ modifier[n] = ")"
           /\ ~InSeq("\n", value) /\ ~InSeq("\r", value)
        THEN value
        ELSE Undefined

\* a plausible slip: the reference read as table.column, whatever its number of parts
applyForeignKey_tableDotColumn(column, ref) ==
    LET refParts == split(ref, ".")
        fk == SetField(column, "isForeignKey", TRUE)
    IN  IF Len(refParts) >= 2
        THEN SetField(SetField(fk, "foreignKeyTable", refParts[1]), "foreignKeyColumn", refParts[2])
        ELSE SetField(SetField(fk, "foreignKeyTable", ref), "foreignKeyColumn", <<"i","d">>)

\* the foreign-key branch of parseModifier, for a matched reference
applyForeignKey(column, ref) ==
    LET refParts == split(ref, ".")
        n == Len(refParts)
        fk == SetField(column, "isForeignKey", TRUE)
    IN  IF n >= 2
        THEN SetField(SetField(fk, "foreignKeyTable", join(SubSeq(refParts, 1, n - 1), <<".">>)),
                      "foreignKeyColumn", refParts[n])
        ELSE SetField(SetField(fk, "foreignKeyTable", ref), "foreignKeyColumn", <<"i","d">>)

\* a plausible slip: a primary key also marks the column as not nullable
parseModifier_pkClearsNullable(column, modifier) ==
    LET mod == toLowerCase(modifier)
    IN  IF mod \in {<<"p","k">>, <<"p","r","i","m","a","r","y","k","e","y">>, <<"p","r","i","m","a","r","y","_","k","e","y">>}
        THEN Return(SetField(SetField(column, "isPrimaryKey", TRUE), "isNullable", FALSE))
        ELSE IF mod \in {<<"a","u","t","o","i","n","c","r","e","m","e","n","t">>, <<"a","u","t","o","_","i","n","c","r","e","m","e","n","t">>, <<"s","e","r","i","a","l">>}
        THEN Return(SetField(column, "isAutoIncrement", TRUE))
        ELSE IF mod \in {<<"n","u","l","l","a","b","l","e">>, <<"n","u","l","l">>}
        THEN Return(SetField(column, "isNullable", TRUE))
        ELSE IF fkMatch(modifier) # Undefined
        THEN Return(applyForeignKey(column, fkMatch(modifier)))
        ELSE IF defaultMatch(modifier) # Undefined
        THEN Return(SetField(column, "defaultValue", defaultMatch(modifier)))
        ELSE Throw(CLIError("Unknown modifier: ", modifier, 1,
                 "Valid modifiers: pk, fk(table.column), nullable, default(value), autoincrement"))

\* a plausible slip: a token that matches nothing is passed over instead of rejected
parseModifier_ignoreUnknown(column, modifier) ==
    LET mod == toLowerCase(modifier)
    IN  IF mod \in {<<"p","k">>, <<"p","r","i","m","a","r","y","k","e","y">>, <<"p","r","i","m","a","r","y","_","k","e","y">>}
        THEN Return(SetField(column, "isPrimaryKey", TRUE))
        ELSE IF mod \in {<<"a","u","t","o","i","n","c","r","e","m","e","n","t">>, <<"a","u","t","o","_","i","n","c","r","e","m","e","n","t">>, <<"s","e","r","i","a","l">>}
        THEN Return(SetField(column, "isAutoIncrement", TRUE))
        ELSE IF mod \in {<<"n","u","l","l","a","b","l","e">>, <<"n","u","l","l">>}
        THEN Return(SetField(column, "isNullable", TRUE))
        ELSE IF fkMatch(modifier) # Undefined
        THEN Return(applyForeignKey(column, fkMatch(modifier)))
        ELSE IF defaultMatch(modifier) # Undefined
        THEN Return(SetField(column, "defaultValue", defaultMatch(modifier)))
        ELSE Return(column)

parseModifier(column, modifier) ==
    LET mod == toLowerCase(modifier)
    IN  IF mod \in {<<"p","k">>, <<"p","r","i","m","a","r","y","k","e","y">>, <<"p","r","i","m","a","r","y","_","k","e","y">>}
        THEN Return(SetField(column, "isPrimaryKey", TRUE))
        ELSE IF mod \in {<<"a","u","t","o","i","n","c","r","e","m","e","n","t">>, <<"a","u","t","o","_","i","n","c","r","e","m","e","n","t">>, <<"s","e","r","i","a","l">>}
        THEN Return(SetField(column, "isAutoIncrement", TRUE))
        ELSE IF mod \in {<<"n","u","l","l","a","b","l","e">>, <<"n","u","l","l">>}
        THEN Return(SetField(column, "isNullable", TRUE))
        ELSE IF fkMatch(modifier) # Undefined
        THEN Return(applyForeignKey(column, fkMatch(modifier)))
        ELSE IF defaultMatch(modifier) # Undefined
        THEN Return(SetField(column, "defaultValue", defaultMatch(modifier)))
        ELSE Throw(CLIError("Unknown modifier: ", modifier, 1,
                 "Valid modifiers: pk, fk(table.column), nullable, default(value), autoincrement"))

\* the loop over the modifiers: the first one that throws ends it
RECURSIVE parseModifiers(_, _)
parseModifiers(column, modifiers) ==
    IF modifiers = <<>> THEN Return(column)
    ELSE LET r == parseModifier(column, Head(modifiers))
         IN  IF r.ok THEN parseModifiers(r.value, Tail(modifiers)) ELSE r

parseColumn(definition) ==
    LET raw == split(definition, ":")
        segments == [i \in 1..Len(raw) |-> trim(raw[i])]
    IN  IF Len(segments) < 2
        THEN Throw(CLIError("Invalid column definition: ", definition, 1,
                 "Format: name:type[:modifiers] (e.g., id:int:pk, title:text, userId:uuid:fk(auth.users.id))"))
        ELSE IF segments[1] = <<>> \/ segments[2] = <<>>
        THEN Throw(CLIError("Missing name or type in column: ", definition, 1,
                 "Each column must have a name and type"))
        ELSE parseModifiers([name |-> segments[1], type |-> normalizeType(segments[2])],
                            SubSeq(segments, 3, Len(segments)))

\* spec.split(',').map((s) => s.trim())
specParts(s) == LET raw == split(s, ",") IN [i \in 1..Len(raw) |-> trim(raw[i])]

\* the loop of parseColumnSpec from part i on, with the columns pushed so far
\* a plausible slip: unshift instead of push
pushColumn_unshift(cols, column) == <<column>> \o cols

\* columns.push(column)
pushColumn(cols, column) == Append(cols, column)

RECURSIVE parseFrom(_, _, _)
parseFrom(ps, i, cols) ==
    IF i > Len(ps) THEN Return(cols)
    ELSE IF ps[i] = <<>> THEN parseFrom(ps, i + 1, cols)
    ELSE LET r == parseColumn(ps[i])
         IN  IF r.ok THEN parseFrom(ps, i + 1, pushColumn(cols, r.value)) ELSE r

parseColumnSpec(s) == parseFrom(specParts(s), 1, <<>>)

-----------------------------------------------------------------------------
(* utils/column-parser.ts: case conversion *)

RECURSIVE dropWhileIn(_, _)
dropWhileIn(s, chars) ==
    IF s # <<>> /\ Head(s) \in chars THEN dropWhileIn(Tail(s), chars) ELSE s

\* .replace(/([A-Z])/g, '_$1')
RECURSIVE underscoreUpper(_)
underscoreUpper(s) ==
    IF s = <<>> THEN <<>>
    ELSE (IF IsUpper(Head(s)) THEN <<"_", Head(s)>> ELSE <<Head(s)>>) \o underscoreUpper(Tail(s))

\* .replace(/[-\s]+/g, '_')
RECURSIVE collapseSeparators(_)
collapseSeparators(s) ==
    IF s = <<>> THEN <<>>
    ELSE IF Head(s) \in WhiteSpace \cup {"-"}
    THEN <<"_">> \o collapseSeparators(dropWhileIn(s, WhiteSpace \cup {"-"}))
    ELSE <<Head(s)>> \o collapseSeparators(Tail(s))

\* .replace(/^_/, '')
stripLeadingUnderscore(s) == IF s # <<>> /\ Head(s) = "_" THEN Tail(s) ELSE s

\* a plausible slip: the toLowerCase() step left out
toSnakeCase_keepCase(str) ==
    stripLeadingUnderscore(collapseSeparators(underscoreUpper(str)))

toSnakeCase(str) ==
    stripLeadingUnderscore(toLowerCase(collapseSeparators(underscoreUpper(str))))

\* .replace(/[-_\s]+(.)?/g, (_, c) => (c ? c.toUpperCase() : ''))
RECURSIVE upperAfterSeparators(_)
upperAfterSeparators(s) ==
    IF s = <<>> THEN <<>>
    ELSE IF Head(s) \in WhiteSpace \cup {"-", "_"}
    THEN LET rest == dropWhileIn(s, WhiteSpace \cup {"-", "_"})
         IN  IF rest = <<>> THEN <<>>
             ELSE <<toUpperCaseChar(Head(rest))>> \o upperAfterSeparators(Tail(rest))
    ELSE <<Head(s)>> \o upperAfterSeparators(Tail(s))

toCamelCase(str) ==
    LET s == upperAfterSeparators(str)
    IN  IF s = <<>> THEN s ELSE <<toLowerCaseChar(Head(s))>> \o Tail(s)

toPascalCase(str) ==
    LET s == upperAfterSeparators(str)
    IN  IF s = <<>> THEN s ELSE <<toUpperCaseChar(Head(s))>> \o Tail(s)

-----------------------------------------------------------------------------
(* utils/column-parser.ts: the emitters *)

sqlTypeMap ==
    << <<<<"i","n","t","e","g","e","r">>, <<"I","N","T","E","G","E","R">>>>, <<<<"b","i","g","i","n","t">>, <<"B","I","G","I","N","T">>>>, <<<<"t","e","x","t">>, <<"T","E","X","T">>>>,
       <<<<"b","o","o","l","e","a","n">>, <<"B","O","O","L","E","A","N">>>>, <<<<"r","e","a","l">>, <<"R","E","A","L">>>>, <<<<"d","a","t","e","t","i","m","e">>, <<"T","I","M","E","S","T","A","M","P","T","Z">>>>,
       <<<<"u","u","i","d">>, <<"U","U","I","D">>>>, <<<<"j","s","o","n","b">>, <<"J","S","O","N","B">>>>, <<<<"b","l","o","b">>, <<"B","Y","T","E","A">>>> >>

sqlType(type) == Or(GetProperty(sqlTypeMap, type), <<"T","E","X","T">>)

driftTypeMap ==
    << <<<<"i","n","t","e","g","e","r">>, <<"i","n","t","e","g","e","r">>>>, <<<<"b","i","g","i","n","t">>, <<"i","n","t","6","4">>>>, <<<<"t","e","x","t">>, <<"t","e","x","t">>>>,
       <<<<"b","o","o","l","e","a","n">>, <<"b","o","o","l","e","a","n">>>>, <<<<"r","e","a","l">>, <<"r","e","a","l">>>>, <<<<"d","a","t","e","t","i","m","e">>, <<"d","a","t","e","T","i","m","e">>>>,
       <<<<"u","u","i","d">>, <<"t","e","x","t">>>>, <<<<"j","s","o","n","b">>, <<"t","e","x","t">>>>, <<<<"b","l","o","b">>, <<"b","l","o","b">>>> >>

getDriftType(type) == Or(GetProperty(driftTypeMap, type), <<"t","e","x","t">>)

\* a plausible slip: the boolean default compared with "true" as written, not lower-cased
formatDefaultValue_caseSensitiveTrue(value, type) ==
    IF value = <<"n","o","w","(",")">> \/ value = <<"n","o","w">> THEN <<"n","o","w","(",")">>
    ELSE IF type = <<"b","o","o","l","e","a","n">>
    THEN (IF value = <<"t","r","u","e">> THEN <<"t","r","u","e">> ELSE <<"f","a","l","s","e">>)
    ELSE IF type = <<"i","n","t","e","g","e","r">> \/ type = <<"r","e","a","l">> \/ type = <<"b","i","g","i","n","t">> THEN value
    ELSE <<"'">> \o value \o <<"'">>

formatDefaultValue(value, type) ==
    IF value = <<"n","o","w","(",")">> \/ value = <<"n","o","w">> THEN <<"n","o","w","(",")">>
    ELSE IF type = <<"b","o","o","l","e","a","n">>
    THEN (IF toLowerCase(value) = <<"t","r","u","e">> THEN <<"t","r","u","e">> ELSE <<"f","a","l","s","e">>)
    ELSE IF type = <<"i","n","t","e","g","e","r">> \/ type = <<"r","e","a","l">> \/ type = <<"b","i","g","i","n","t">> THEN value
    ELSE <<"'">> \o value \o <<"'">>

formatDartDefault(value, type) ==
    IF value = <<"n","o","w","(",")">> \/ value = <<"n","o","w">> THEN <<"c","u","r","r","e","n","t","D","a","t","e","A","n","d","T","i","m","e">>
    ELSE IF type = <<"b","o","o","l","e","a","n">>
    THEN <<"c","o","n","s","t"," ","C","o","n","s","t","a","n","t","(">> \o (IF toLowerCase(value) = <<"t","r","u","e">> THEN <<"t","r","u","e">> ELSE <<"f","a","l","s","e">>) \o <<")">>
    ELSE IF type = <<"i","n","t","e","g","e","r">> \/ type = <<"r","e","a","l">> \/ type = <<"b","i","g","i","n","t">>
    THEN <<"c","o","n","s","t"," ","C","o","n","s","t","a","n","t","(">> \o value \o <<")">>
    ELSE <<"c","o","n","s","t"," ","C","o","n","s","t","a","n","t","(","'">> \o value \o <<"'",")">>

\* a plausible slip: NOT NULL decided by isNullable alone
sqlLine_notNullOnPrimaryKey(col) ==
    LET isPk == Has(col, "isPrimaryKey")
        base == IF isPk /\ Has(col, "isAutoIncrement")
                THEN <<" "," ">> \o toSnakeCase(col.name) \o <<" ">>
                     \o (IF col.type = <<"u","u","i","d">> THEN <<"U","U","I","D"," ","D","E","F","A","U","L","T"," ","g","e","n","_","r","a","n","d","o","m","_","u","u","i","d","(",")">> ELSE <<"S","E","R","I","A","L">>)
                     \o <<" ","P","R","I","M","A","R","Y"," ","K","E","Y">>
                ELSE <<" "," ">> \o toSnakeCase(col.name) \o <<" ">> \o sqlType(col.type)
                     \o (IF isPk THEN <<" ","P","R","I","M","A","R","Y"," ","K","E","Y">> ELSE <<>>)
        notNull == IF ~Has(col, "isNullable") THEN <<" ","N","O","T"," ","N","U","L","L">> ELSE <<>>
        dflt == IF Has(col, "defaultValue") /\ ~isPk
                THEN <<" ","D","E","F","A","U","L","T"," ">> \o formatDefaultValue(col.defaultValue, col.type)
                ELSE <<>>
        refs == IF Has(col, "isForeignKey") /\ Has(col, "foreignKeyTable")
                     /\ col.foreignKeyTable # <<>>
                THEN <<" ","R","E","F","E","R","E","N","C","E","S"," ">> \o col.foreignKeyTable \o <<"(">>
                     \o Or(col.foreignKeyColumn, <<"i","d">>) \o <<")"," ","O","N"," ","D","E","L","E","T","E"," ","C","A","S","C","A","D","E">>
                ELSE <<>>
    IN  base \o notNull \o dflt \o refs

\* the body of the loop of columnsToSQL: the line of one column
sqlLine(col) ==
    LET isPk == Has(col, "isPrimaryKey")
        base == IF isPk /\ Has(col, "isAutoIncrement")
                THEN <<" "," ">> \o toSnakeCase(col.name) \o <<" ">>
                     \o (IF col.type = <<"u","u","i","d">> THEN <<"U","U","I","D"," ","D","E","F","A","U","L","T"," ","g","e","n","_","r","a","n","d","o","m","_","u","u","i","d","(",")">> ELSE <<"S","E","R","I","A","L">>)
                     \o <<" ","P","R","I","M","A","R","Y"," ","K","E","Y">>
                ELSE <<" "," ">> \o toSnakeCase(col.name) \o <<" ">> \o sqlType(col.type)
                     \o (IF isPk THEN <<" ","P","R","I","M","A","R","Y"," ","K","E","Y">> ELSE <<>>)
        notNull == IF ~Has(col, "isNullable") /\ ~isPk THEN <<" ","N","O","T"," ","N","U","L","L">> ELSE <<>>
        dflt == IF Has(col, "defaultValue") /\ ~isPk
                THEN <<" ","D","E","F","A","U","L","T"," ">> \o formatDefaultValue(col.defaultValue, col.type)
                ELSE <<>>
        refs == IF Has(col, "isForeignKey") /\ Has(col, "foreignKeyTable")
                     /\ col.foreignKeyTable # <<>>
                THEN <<" ","R","E","F","E","R","E","N","C","E","S"," ">> \o col.foreignKeyTable \o <<"(">>
                     \o Or(col.foreignKeyColumn, <<"i","d">>) \o <<")"," ","O","N"," ","D","E","L","E","T","E"," ","C","A","S","C","A","D","E">>
                ELSE <<>>
    IN  base \o notNull \o dflt \o refs

columnsToSQL(table, cols) ==
    Return(<<"C","R","E","A","T","E"," ","T","A","B","L","E"," ">> \o toSnakeCase(table) \o <<" ","(">> \o <<"\n">>
           \o join([i \in 1..Len(cols) |-> sqlLine(cols[i])], <<",", "\n">>)
           \o <<"\n">> \o <<")",";">>)

\* a plausible slip: the chain built in the order nullable, autoIncrement, withDefault
driftColumn_nullableFirst(col) ==
    LET driftType == getDriftType(col.type)
    IN  <<" "," ">> \o driftType \o <<"C","o","l","u","m","n"," ","g","e","t"," ">> \o toCamelCase(col.name) \o <<" ","=",">"," ">> \o driftType \o <<"(",")">>
        \o (IF Has(col, "isNullable") THEN <<".","n","u","l","l","a","b","l","e","(",")">> ELSE <<>>)
        \o (IF Has(col, "isPrimaryKey") /\ Has(col, "isAutoIncrement")
            THEN <<".","a","u","t","o","I","n","c","r","e","m","e","n","t","(",")">> ELSE <<>>)
        \o (IF Has(col, "defaultValue")
            THEN <<".","w","i","t","h","D","e","f","a","u","l","t","(">> \o formatDartDefault(col.defaultValue, col.type) \o <<")">>
            ELSE <<>>)
        \o <<"(",")",";">>

driftColumn(col) ==
    LET driftType == getDriftType(col.type)
    IN  <<" "," ">> \o driftType \o <<"C","o","l","u","m","n"," ","g","e","t"," ">> \o toCamelCase(col.name) \o <<" ","=",">"," ">> \o driftType \o <<"(",")">>
        \o (IF Has(col, "isPrimaryKey") /\ Has(col, "isAutoIncrement")
            THEN <<".","a","u","t","o","I","n","c","r","e","m","e","n","t","(",")">> ELSE <<>>)
        \o (IF Has(col, "isNullable") THEN <<".","n","u","l","l","a","b","l","e","(",")">> ELSE <<>>)
        \o (IF Has(col, "defaultValue")
            THEN <<".","w","i","t","h","D","e","f","a","u","l","t","(">> \o formatDartDefault(col.defaultValue, col.type) \o <<")">>
            ELSE <<>>)
        \o <<"(",")",";">>

\* a plausible slip: like columnsToSQL, the default of a primary key is passed over
columnsToDrift_noDefaultOnPrimaryKey(table, cols) ==
    LET sansDefault(col) == IF Has(col, "isPrimaryKey")
                            THEN [f \in DOMAIN col \ {"defaultValue"} |-> col[f]]
                            ELSE col
    IN  Return(join(<<<<"c","l","a","s","s"," ">> \o toPascalCase(table) \o <<" ","e","x","t","e","n","d","s"," ","T","a","b","l","e"," ","{">>>>
                    \o [i \in 1..Len(cols) |-> driftColumn(sansDefault(cols[i]))]
                    \o <<<<"}">>>>, <<"\n">>))

columnsToDrift(table, cols) ==
    Return(join(<<<<"c","l","a","s","s"," ">> \o toPascalCase(table) \o <<" ","e","x","t","e","n","d","s"," ","T","a","b","l","e"," ","{">>>>
                \o [i \in 1..Len(cols) |-> driftColumn(cols[i])]
                \o <<<<"}">>>>, <<"\n">>))

-----------------------------------------------------------------------------
(* utils/path.ts, with node:path on a POSIX system *)

\* process.cwd(), the default base directory
Cwd == <<"/","h","o","m","e","/","a","p","p">>

\* the non-empty components of a path
RECURSIVE nonEmpty(_)
nonEmpty(list) ==
    IF list = <<>> THEN <<>>
    ELSE (IF Head(list) = <<>> THEN <<>> ELSE <<Head(list)>>) \o nonEmpty(Tail(list))

pathSegments(p) == nonEmpty(split(p, "/"))

\* the components of an absolute path with '.' and '..' resolved; '..' at the root stays there
RECURSIVE resolveDots(_, _)
resolveDots(segs, stack) ==
    IF segs = <<>> THEN stack
    ELSE IF Head(segs) = <<".">> THEN resolveDots(Tail(segs), stack)
    ELSE IF Head(segs) = <<".",".">>
    THEN resolveDots(Tail(segs), IF stack = <<>> THEN stack ELSE SubSeq(stack, 1, Len(stack) - 1))
    ELSE resolveDots(Tail(segs), Append(stack, Head(segs)))

isAbsolute(p) == p # <<>> /\ Head(p) = "/"

\* normalize(resolve(base, userPath)): the normalized absolute path, as its components
resolve(base, path) ==
    IF isAbsolute(path) THEN resolveDots(pathSegments(path), <<>>)
    ELSE resolveDots(pathSegments(base) \o pathSegments(path), <<>>)

absolutePath(segs) == <<"/">> \o join(segs, <<"/">>)

RECURSIVE commonPrefixLen(_, _)
commonPrefixLen(a, b) ==
    IF a = <<>> \/ b = <<>> \/ Head(a) # Head(b) THEN 0
    ELSE 1 + commonPrefixLen(Tail(a), Tail(b))

\* relative(from, to) for two normalized absolute paths given by their components
relative(from, to) ==
    LET k == commonPrefixLen(from, to)
    IN  join([i \in 1..(Len(from) - k) |-> <<".",".">>] \o SubSeq(to, k + 1, Len(to)), <<"/">>)

\* a plausible slip: the test made on the path as the user wrote it, not on the relative path
validateOutputPath_rawPrefix(path, base) ==
    IF startsWith(path, <<".",".">>) \/ isAbsolute(path)
    THEN Throw(CLIError("Output path escapes project directory: ", path, GENERAL_ERROR,
             "Output path must be within the current project directory. Use relative paths like \"./lib/output.dart\"."))
    ELSE Return(absolutePath(resolve(base, path)))

validateOutputPath(path, base) ==
    LET normalizedBase == resolve(base, <<>>)
        normalizedPath == resolve(base, path)
        relativePath == relative(normalizedBase, normalizedPath)
    IN  IF startsWith(relativePath, <<".",".">>) \/ isAbsolute(relativePath)
        THEN Throw(CLIError("Output path escapes project directory: ", path, GENERAL_ERROR,
                 "Output path must be within the current project directory. Use relative paths like \"./lib/output.dart\"."))
        ELSE Return(absolutePath(normalizedPath))

-----------------------------------------------------------------------------
(* Results of calls, and the resting values of the components a run does not use *)

Pending == [status |-> "pending"]

Returned(v) == [status |-> "returned", value |-> v]

Raised(e) == [status |-> "raised", error |-> e]

AsResult(r) == IF r.ok THEN Returned(r.value) ELSE Raised(r.error)

IdleIdent == name = <<>> /\ valid = Pending

IdleType == rawType = <<>> /\ normType = Pending /\ normTwice = Pending

IdleCompile ==
    /\ tableName = Undefined /\ spec = <<>> /\ inSegs = <<>>
    /\ pc = "idle" /\ parts = <<>> /\ idx = 0 /\ columns = <<>>
    /\ parsed = Pending /\ sql = Pending /\ drift = Pending

IdleDrift == dArgs = <<>> /\ dpc = "idle" /\ dOut = <<>> /\ events = <<>>

IdlePath == userPath = <<>> /\ baseDir = <<>> /\ pathParts = <<>> /\ validated = Pending

IdleRetry ==
    /\ maxRetries = 0 /\ attempt = 0 /\ lastError = Undefined
    /\ rpc = "idle" /\ rEvents = <<>> /\ rOutcome = Pending

IdleCache ==
    /\ store = <<>> /\ now = 0 /\ cpc = "idle" /\ cur = <<>> /\ prev = <<>> /\ cCount = 0

IdleCreate == tArgs = <<>> /\ tpc = "idle" /\ tOut = <<>> /\ tExit = Undefined

StringsUpTo(alphabet, n) == UNION { [1..k -> alphabet] : k \in 0..n }

-----------------------------------------------------------------------------
(* validateIdentifier on every short string over a mixed alphabet *)

IdAlphabet == {"a", "Z", "_", "7", "-", ".", " ", "'", "\"", ";"}

InitIdent ==
    /\ name \in StringsUpTo(IdAlphabet, MaxIdLen)
    /\ valid = Pending
    /\ IdleType /\ IdleCompile /\ IdleDrift /\ IdlePath /\ IdleRetry /\ IdleCache /\ IdleCreate

CallValidateIdentifier ==
    /\ valid = Pending
    /\ valid' = Returned(validateIdentifier(name))
    /\ UNCHANGED <<name, typeVars, compileVars, driftVars, pathVars, retryVars, cacheVars, createVars>>

NextIdent == CallValidateIdentifier

SpecIdent == InitIdent /\ [][NextIdent]_vars

-----------------------------------------------------------------------------
(* normalizeType on the aliases in three spellings and on other names *)

capitalize(s) == IF s = <<>> THEN s ELSE <<toUpperCaseChar(Head(s))>> \o Tail(s)

AliasNames == { normalizeTypeMap[i][1] : i \in 1..Len(normalizeTypeMap) }

OtherTypeNames ==
    { <<"t","e","x","t">>, <<"i","n","t","e","g","e","r">>, <<"r","e","a","l">>, <<"M","o","n","e","y">>, <<"v","a","r","c","h","a","r","2">>, <<"x">>, <<"g","e","o","m","e","t","r","y">>,
      <<"c","o","n","s","t","r","u","c","t","o","r">>, <<"_","_","p","r","o","t","o","_","_">>, <<"t","o","S","t","r","i","n","g">>, <<"v","a","l","u","e","O","f">> }

RawTypes ==
    AliasNames \cup { toUpperCase(a) : a \in AliasNames } \cup { capitalize(a) : a \in AliasNames }
    \cup OtherTypeNames

InitType ==
    /\ rawType \in RawTypes
    /\ normType = Pending /\ normTwice = Pending
    /\ IdleIdent /\ IdleCompile /\ IdleDrift /\ IdlePath /\ IdleRetry /\ IdleCache /\ IdleCreate

CallNormalizeType ==
    /\ normType = Pending
    /\ normType' = Returned(normalizeType(rawType))
    /\ UNCHANGED <<rawType, normTwice, identVars, compileVars, driftVars, pathVars, retryVars, cacheVars, createVars>>

\* normalizeType(normalizeType(rawType)): the second call, on whatever the first returned
CallNormalizeTypeAgain ==
    /\ normType # Pending /\ normTwice = Pending
    /\ normTwice' = AsResult(normalizeTypeCall(normType.value))
    /\ UNCHANGED <<rawType, normType, identVars, compileVars, driftVars, pathVars, retryVars, cacheVars, createVars>>

NextType ==
    \/ CallNormalizeType
    \/ CallNormalizeTypeAgain

SpecType == InitType /\ [][NextType]_vars

-----------------------------------------------------------------------------
(* One compile: parseColumnSpec on a specification assembled from segments, *)
(* then the emitters on its result                                          *)

\* a segment is the list of its colon-separated fields, written as the user types them
SegmentPool ==
    { <<<<"i","d">>, <<"i","n","t">>, <<"p","k">>>>,
      <<<<"n","a","m","e">>, <<"t","e","x","t">>>>,
      <<<<"u","s","e","r","I","d">>, <<"u","u","i","d">>, <<"f","k","(","a","u","t","h",".","u","s","e","r","s",".","i","d",")">>>>,
      <<<<" ","e","m","a","i","l"," ">>, <<"S","t","r","i","n","g">>, <<"n","u","l","l","a","b","l","e">>>>,
      <<<<"u","s","e","r","-","i","d">>, <<"i","n","t">>>>,
      <<<<"i","d",";","D","R","O","P"," ","T","A","B","L","E"," ","u","s","e","r","s">>, <<"i","n","t">>>>,
      <<<<"n","a","m","e">>>>,
      <<<<>>, <<"i","n","t">>>>,
      <<<<"a">>, <<" ">>>>,
      <<<<"a">>, <<"i","n","t">>, <<"b","o","g","u","s">>>>,
      <<<<>>>>,
      <<<<" ">>>> }

SegLists == UNION { [1..n -> SegmentPool] : n \in 0..MaxSegs }

\* the specification string the user types for a list of segments
SpecText(segs) == join([i \in 1..Len(segs) |-> join(segs[i], <<":">>)], <<",">>)

TableNames == { <<"u","s","e","r","s">>, <<"U","s","e","r","P","o","s","t","s">>, <<"t","a","b","l","e","-","n","a","m","e">>, <<"u","s","e","r","s",";"," ","D","R","O","P"," ","T","A","B","L","E"," ","u","s","e","r","s",";","-","-">> }

Init ==
    /\ inSegs \in SegLists
    /\ spec = SpecText(inSegs)
    /\ tableName = Undefined
    /\ pc = "start" /\ parts = <<>> /\ idx = 0 /\ columns = <<>>
    /\ parsed = Pending /\ sql = Pending /\ drift = Pending
    /\ IdleIdent /\ IdleType /\ IdleDrift /\ IdlePath /\ IdleRetry /\ IdleCache /\ IdleCreate

\* parseColumnSpec, up to the loop
ParseStart ==
    /\ pc = "start"
    /\ parts' = specParts(spec)
    /\ idx' = 1
    /\ columns' = <<>>
    /\ pc' = "loop"
    /\ UNCHANGED <<tableName, spec, inSegs, parsed, sql, drift, identVars, typeVars, driftVars, pathVars, retryVars, cacheVars, createVars>>

\* one turn of the loop on an empty part: continue
ParseSkip ==
    /\ pc = "loop" /\ idx <= Len(parts) /\ parts[idx] = <<>>
    /\ idx' = idx + 1
    /\ UNCHANGED <<tableName, spec, inSegs, pc, parts, columns, parsed, sql, drift,
                   identVars, typeVars, driftVars, pathVars, retryVars, cacheVars, createVars>>

\* one turn of the loop on a non-empty part: push the column, or leave by the exception
ParseSegment ==
    /\ pc = "loop" /\ idx <= Len(parts) /\ parts[idx] # <<>>
    /\ LET r == parseColumn(parts[idx])
       IN  IF r.ok
           THEN /\ columns' = pushColumn(columns, r.value)
                /\ idx' = idx + 1
                /\ UNCHANGED <<pc, parsed>>
           ELSE /\ parsed' = Raised(r.error)
                /\ pc' = "thrown"
                /\ UNCHANGED <<columns, idx>>
    /\ UNCHANGED <<tableName, spec, inSegs, parts, sql, drift, identVars, typeVars, driftVars, pathVars, retryVars, cacheVars, createVars>>

\* the loop is over: return columns
ParseReturn ==
    /\ pc = "loop" /\ idx > Len(parts)
    /\ parsed' = Returned(columns)
    /\ pc' = "parsed"
    /\ UNCHANGED <<tableName, spec, inSegs, parts, idx, columns, sql, drift,
                   identVars, typeVars, driftVars, pathVars, retryVars, cacheVars, createVars>>

\* the caller names the table before the compile or on its first emitter call
ChooseTable(t) == IF tableName = Undefined THEN t \in TableNames ELSE t = tableName

CallColumnsToSQL ==
    /\ pc = "parsed" /\ sql = Pending
    /\ \E t \in TableNames \cup {tableName} :
         /\ ChooseTable(t)
         /\ tableName' = t
         /\ sql' = AsResult(columnsToSQL(t, parsed.value))
    /\ UNCHANGED <<spec, inSegs, pc, parts, idx, columns, parsed, drift,
                   identVars, typeVars, driftVars, pathVars, retryVars, cacheVars, createVars>>

CallColumnsToDrift ==
    /\ pc = "parsed" /\ drift = Pending
    /\ \E t \in TableNames \cup {tableName} :
         /\ ChooseTable(t)
         /\ tableName' = t
         /\ drift' = AsResult(columnsToDrift(t, parsed.value))
    /\ UNCHANGED <<spec, inSegs, pc, parts, idx, columns, parsed, sql,
                   identVars, typeVars, driftVars, pathVars, retryVars, cacheVars, createVars>>

Next ==
    \/ ParseStart
    \/ ParseSkip
    \/ ParseSegment
    \/ ParseReturn
    \/ CallColumnsToSQL
    \/ CallColumnsToDrift

Spec == Init /\ [][Next]_vars

-----------------------------------------------------------------------------
(* One compile of a one-column specification: every short list of modifiers *)

ColumnNames == { <<"u","s","e","r","I","d">>, <<"_","p","r","i","v","a","t","e">> }

ColumnTypes == { <<"u","u","i","d">>, <<"T","e","x","t">> }

\* the references written inside fk(...)
FkRefPool ==
    { <<"a","u","t","h",".","u","s","e","r","s",".","i","d">>, <<"u","s","e","r","s">>, <<"x",".","y">>, <<"t",".">>, <<".","c">>, <<"a","u","t","h",";","D","R","O","P"," ","T","A","B","L","E"," ","u","s","e","r","s",".","i","d">>, <<"a","u","t","h",".","u","s","e","r","s",".","i","d","'">> }

ModifierPool ==
    { <<"p","k">>, <<"P","r","i","m","a","r","y","K","e","y">>, <<"s","e","r","i","a","l">>, <<"n","u","l","l","a","b","l","e">>,
      <<"d","e","f","a","u","l","t","(","n","o","w","(",")",")">>, <<"d","e","f","a","u","l","t","(","O","'","B","r","i","e","n",")">>, <<"b","o","g","u","s">>, <<"f","k","(",")">>, <<"F","K","(","u","s","e","r","s",")">> }
    \cup { <<"f","k","(">> \o r \o <<")">> : r \in FkRefPool }

ModifierLists == UNION { [1..n -> ModifierPool] : n \in 0..MaxMods }

InitColumn ==
    /\ \E n \in ColumnNames, t \in ColumnTypes, mods \in ModifierLists :
         inSegs = << <<n, t>> \o mods >>
    /\ spec = SpecText(inSegs)
    /\ tableName = Undefined
    /\ pc = "start" /\ parts = <<>> /\ idx = 0 /\ columns = <<>>
    /\ parsed = Pending /\ sql = Pending /\ drift = Pending
    /\ IdleIdent /\ IdleType /\ IdleDrift /\ IdlePath /\ IdleRetry /\ IdleCache /\ IdleCreate

\* parseColumnSpec(spec) as one call
CallParseColumnSpec ==
    /\ pc = "start"
    /\ LET r == parseColumnSpec(spec)
       IN  /\ parsed' = AsResult(r)
           /\ pc' = IF r.ok THEN "parsed" ELSE "thrown"
    /\ UNCHANGED <<tableName, spec, inSegs, parts, idx, columns, sql, drift,
                   identVars, typeVars, driftVars, pathVars, retryVars, cacheVars, createVars>>

NextColumn ==
    \/ CallParseColumnSpec
    \/ CallColumnsToSQL
    \/ CallColumnsToDrift

SpecColumn == InitColumn /\ [][NextColumn]_vars

-----------------------------------------------------------------------------
(* One compile of a one-column specification for a named table: every type, *)
(* every set of flags, with and without a default and a foreign key         *)

EmitNames == { <<"i","d">>, <<"u","s","e","r","I","d">> }

EmitTypes ==
    { <<"u","u","i","d">>, <<"i","n","t">>, <<"T","e","x","t">>, <<"B","o","o","l">>, <<"f","l","o","a","t">>, <<"b","i","g","i","n","t">>, <<"t","i","m","e","s","t","a","m","p">>, <<"m","o","n","e","y">>, <<"c","o","n","s","t","r","u","c","t","o","r">> }

\* the flag modifiers a column carries, in the order they are written
EmitFlagLists ==
    { <<>>, <<<<"p","k">>>>, <<<<"a","u","t","o","i","n","c","r","e","m","e","n","t">>>>, <<<<"n","u","l","l","a","b","l","e">>>>,
      <<<<"p","k">>, <<"a","u","t","o","i","n","c","r","e","m","e","n","t">>>>, <<<<"p","k">>, <<"n","u","l","l","a","b","l","e">>>>, <<<<"a","u","t","o","i","n","c","r","e","m","e","n","t">>, <<"n","u","l","l","a","b","l","e">>>>,
      <<<<"p","k">>, <<"a","u","t","o","i","n","c","r","e","m","e","n","t">>, <<"n","u","l","l","a","b","l","e">>>> }

\* the values written inside default(...)
DefaultPool ==
    { <<"n","o","w","(",")">>, <<"n","o","w">>, <<"N","O","W","(",")">>, <<"t","r","u","e">>, <<"T","R","U","E">>, <<"y","e","s">>, <<"4","2">>, <<"h","e","l","l","o">>, <<"O","'","B","r","i","e","n">>, <<"'">> }

\* zero or one default(...) modifier
EmitDefaultLists == { <<>> } \cup { <<<<"d","e","f","a","u","l","t","(">> \o d \o <<")">>>> : d \in DefaultPool }

\* zero or one fk(...) modifier
EmitFkLists == { <<>>, <<<<"f","k","(","u","s","e","r","s",")">>>>, <<<<"f","k","(","a","u","t","h",".","u","s","e","r","s",")">>>>, <<<<"f","k","(",".","c",")">>>>, <<<<"f","k","(","t",".",")">>>> }

InitEmit ==
    /\ \E n \in EmitNames, t \in EmitTypes, flags \in EmitFlagLists,
          d \in EmitDefaultLists, fk \in EmitFkLists :
         inSegs = << <<n, t>> \o flags \o d \o fk >>
    /\ spec = SpecText(inSegs)
    /\ tableName = <<"u","s","e","r","s">>
    /\ pc = "start" /\ parts = <<>> /\ idx = 0 /\ columns = <<>>
    /\ parsed = Pending /\ sql = Pending /\ drift = Pending
    /\ IdleIdent /\ IdleType /\ IdleDrift /\ IdlePath /\ IdleRetry /\ IdleCache /\ IdleCreate

NextEmit ==
    \/ CallParseColumnSpec
    \/ CallColumnsToSQL
    \/ CallColumnsToDrift

SpecEmit == InitEmit /\ [][NextEmit]_vars

-----------------------------------------------------------------------------
(* One compile of a one-column specification: every pair of a table name and a column name *)

NamePool ==
    { <<"u","s","e","r","s">>, <<"u","s","e","r","I","d">>, <<"U","s","e","r","P","o","s","t","s">>, <<"H","T","T","P","S","e","r","v","e","r">>, <<"X">>, <<"u","s","e","r","_","I","d">>, <<"f","i","r","s","t"," ","n","a","m","e">>, <<"u","s","e","r","-","i","d">>,
      <<"a"," ","-"," ","b">>, <<"c","r","e","a","t","e","d","_","a","t">>, <<"p","o","s","t","_","c","o","u","n","t","_","2">>, <<"_","p","r","i","v","a","t","e">>, <<"_","_","x">>, <<"_">>, <<"_","1">> }

InitNames ==
    /\ \E t \in NamePool, n \in NamePool :
         /\ tableName = t
         /\ inSegs = << <<n, <<"t","e","x","t">>>> >>
    /\ spec = SpecText(inSegs)
    /\ pc = "start" /\ parts = <<>> /\ idx = 0 /\ columns = <<>>
    /\ parsed = Pending /\ sql = Pending /\ drift = Pending
    /\ IdleIdent /\ IdleType /\ IdleDrift /\ IdlePath /\ IdleRetry /\ IdleCache /\ IdleCreate

NextNames ==
    \/ CallParseColumnSpec
    \/ CallColumnsToSQL
    \/ CallColumnsToDrift

SpecNames == InitNames /\ [][NextNames]_vars

-----------------------------------------------------------------------------
(* One compile of a two-column specification: every pair of column names *)

PairNames == { <<"i","d">>, <<"u","s","e","r","I","d">>, <<"u","s","e","r","_","i","d">>, <<"U","s","e","r","I","d">>, <<"u","s","e","r","i","d">>, <<"_","i","d">>, <<"t","i","t","l","e">> }

PairTypes == { <<"t","e","x","t">>, <<"i","n","t">> }

InitPair ==
    /\ \E a \in PairNames, b \in PairNames, t \in PairTypes :
         inSegs = << <<a, <<"t","e","x","t">>>>, <<b, t>> >>
    /\ spec = SpecText(inSegs)
    /\ tableName = <<"u","s","e","r","s">>
    /\ pc = "start" /\ parts = <<>> /\ idx = 0 /\ columns = <<>>
    /\ parsed = Pending /\ sql = Pending /\ drift = Pending
    /\ IdleIdent /\ IdleType /\ IdleDrift /\ IdlePath /\ IdleRetry /\ IdleCache /\ IdleCreate

NextPair ==
    \/ CallParseColumnSpec
    \/ CallColumnsToSQL
    \/ CallColumnsToDrift

SpecPair == InitPair /\ [][NextPair]_vars

-----------------------------------------------------------------------------
(* One compile of a one-column specification: modifiers of pairwise different kinds, *)
(* written in every order                                                            *)

\* one token of each kind: pk, autoincrement, nullable, fk, default
KindTokens == <<<<"p","k">>, <<"a","u","t","o","i","n","c","r","e","m","e","n","t">>, <<"n","u","l","l","a","b","l","e">>, <<"f","k","(","a","u","t","h",".","u","s","e","r","s",")">>, <<"d","e","f","a","u","l","t","(","n","o","w","(",")",")">>>>

\* the selections of kinds in the order they are written: no kind twice
KindOrders ==
    { o \in UNION { [1..n -> 1..Len(KindTokens)] : n \in 0..Len(KindTokens) } :
        \A i, j \in 1..Len(o) : i # j => o[i] # o[j] }

OrderTypes == { <<"u","u","i","d">>, <<"i","n","t">> }

InitOrder ==
    /\ \E t \in OrderTypes, o \in KindOrders :
         inSegs = << <<<<"u","s","e","r","I","d">>, t>> \o [i \in 1..Len(o) |-> KindTokens[o[i]]] >>
    /\ spec = SpecText(inSegs)
    /\ tableName = <<"u","s","e","r","s">>
    /\ pc = "start" /\ parts = <<>> /\ idx = 0 /\ columns = <<>>
    /\ parsed = Pending /\ sql = Pending /\ drift = Pending
    /\ IdleIdent /\ IdleType /\ IdleDrift /\ IdlePath /\ IdleRetry /\ IdleCache /\ IdleCreate

NextOrder ==
    \/ CallParseColumnSpec
    \/ CallColumnsToSQL
    \/ CallColumnsToDrift

SpecOrder == InitOrder /\ [][NextOrder]_vars

-----------------------------------------------------------------------------
(* One compile of a one-column specification with one default(...) modifier *)

\* the values written between the parentheses
DefaultValues ==
    { <<"f","a","l","s","e">>, <<"n","o","w","(",")">>, <<"f","(","x",")","(","y",")">>, <<")">>, <<"(">>, <<"a",")","b">>, <<")",")">>, <<" ","x"," ">>, <<"O","'","B","r","i","e","n">>, <<"\\">>, <<"\"">>,
      <<"a", "\n", "b">> }

\* the spellings of the keyword
DefaultKeywords == { <<"d","e","f","a","u","l","t">>, <<"D","E","F","A","U","L","T">>, <<"D","e","f","a","u","l","t">> }

\* the flag written before the default, if any
DefaultCompanions == { <<>>, <<<<"n","u","l","l","a","b","l","e">>>>, <<<<"p","k">>>> }

DefaultTypes == { <<"t","e","x","t">>, <<"b","o","o","l">>, <<"i","n","t">> }

InitDefault ==
    /\ \E t \in DefaultTypes, c \in DefaultCompanions, k \in DefaultKeywords, v \in DefaultValues :
         inSegs = << <<<<"n","o","t","e">>, t>> \o c \o <<k \o <<"(">> \o v \o <<")">>>> >>
    /\ spec = SpecText(inSegs)
    /\ tableName = <<"u","s","e","r","s">>
    /\ pc = "start" /\ parts = <<>> /\ idx = 0 /\ columns = <<>>
    /\ parsed = Pending /\ sql = Pending /\ drift = Pending
    /\ IdleIdent /\ IdleType /\ IdleDrift /\ IdlePath /\ IdleRetry /\ IdleCache /\ IdleCreate

NextDefault ==
    \/ CallParseColumnSpec
    \/ CallColumnsToSQL
    \/ CallColumnsToDrift

SpecDefault == InitDefault /\ [][NextDefault]_vars

-----------------------------------------------------------------------------
(* validateOutputPath on every short path, relative or absolute, against a base directory *)

\* the names a path is made of
PathComponents == { <<"l","i","b">>, <<"o","u","t",".","t","s">>, <<".",".">>, <<".">>, <<".",".","c","a","c","h","e">>, <<"h","o","m","e">>, <<"a","p","p">> }

PathComponentLists == UNION { [1..n -> PathComponents] : n \in 0..MaxPathLen }

\* base directories, as the components of an absolute path: process.cwd(), a custom one, the root
BaseDirParts == { <<<<"h","o","m","e">>, <<"a","p","p">>>>, <<<<"t","m","p">>, <<"p","r","o","j","e","c","t">>>>, <<>> }

\* the text of a path: a leading '/' when absolute, the components, a trailing '/' when asked
PathText(abs, segs, slash) ==
    (IF abs THEN <<"/">> ELSE <<>>) \o join(segs, <<"/">>) \o (IF slash /\ segs # <<>> THEN <<"/">> ELSE <<>>)

InitPath ==
    /\ \E b \in BaseDirParts, abs \in BOOLEAN, segs \in PathComponentLists, slash \in BOOLEAN :
         /\ pathParts = [base |-> b, abs |-> abs, segs |-> segs]
         /\ baseDir = PathText(TRUE, b, FALSE)
         /\ userPath = PathText(abs, segs, slash)
    /\ validated = Pending
    /\ IdleIdent /\ IdleType /\ IdleCompile /\ IdleDrift /\ IdleRetry /\ IdleCache /\ IdleCreate

CallValidateOutputPath ==
    /\ validated = Pending
    /\ validated' = AsResult(validateOutputPath(userPath, baseDir))
    /\ UNCHANGED <<userPath, baseDir, pathParts, identVars, typeVars, compileVars, driftVars,
                   retryVars, cacheVars, createVars>>

NextPath == CallValidateOutputPath

SpecPath == InitPath /\ [][NextPath]_vars

-----------------------------------------------------------------------------
(* services/http.ts: one call of withRateLimitRetry(fn, maxRetries) *)

\* the value NaN
NaN == <<"NaN">>

DigitValue(c) == (CHOOSE i \in 1..Len(DigitChars) : DigitChars[i] = c) - 1

\* the number written by the leading digits of s, read from position i on with acc so far
RECURSIVE leadingDigits(_, _, _)
leadingDigits(s, i, acc) ==
    IF i <= Len(s) /\ IsDigit(s[i]) THEN leadingDigits(s, i + 1, 10 * acc + DigitValue(s[i]))
    ELSE acc

\* Number.parseInt(s, 10) on an unsigned text: NaN unless it starts, after white space, with a
\* digit (isNumeric)
isNumeric(s) == trimStart(s) # <<>> /\ IsDigit(trimStart(s)[1])

parseInt(s) == IF isNumeric(s) THEN leadingDigits(trimStart(s), 1, 0) ELSE NaN

RECURSIVE pow2(_)
pow2(n) == IF n = 0 THEN 1 ELSE 2 * pow2(n - 1)

\* the values of the retry-after header of a 429 response
RetryAfterHeaders == { Undefined, <<>>, <<"2">>, <<"0">>, <<"s","o","o","n">> }

\* what fn() can throw: an error with a response of some status, an error without a
\* response, or a value that is no object
ThrownByFn ==
    { [isObject |-> TRUE, hasResponse |-> TRUE, statusCode |-> 429, retryAfter |-> h] :
        h \in RetryAfterHeaders }
    \cup { [isObject |-> TRUE, hasResponse |-> TRUE, statusCode |-> 500, retryAfter |-> Undefined],
           [isObject |-> TRUE, hasResponse |-> FALSE, statusCode |-> 0, retryAfter |-> Undefined],
           [isObject |-> FALSE, hasResponse |-> FALSE, statusCode |-> 0, retryAfter |-> Undefined] }

\* a catch block that retries after every error that carries a response
isRateLimited_anyResponse(error) == error.isObject /\ error.hasResponse

\* the test of the catch block: an object with a response whose statusCode is 429
isRateLimited(error) == error.isObject /\ error.hasResponse /\ error.statusCode = 429

\* retryAfter ? Number.parseInt(retryAfter, 10) * 1000 : Math.pow(2, attempt) * 1000
waitTime(error, n) ==
    IF error.retryAfter # Undefined /\ error.retryAfter # <<>>
    THEN (IF isNumeric(error.retryAfter) THEN parseInt(error.retryAfter) * 1000 ELSE NaN)
    ELSE pow2(n) * 1000

InitRetry ==
    /\ maxRetries \in 0..MaxRetriesArg
    /\ attempt = 0 /\ lastError = Undefined
    /\ rpc = "loop" /\ rEvents = <<>> /\ rOutcome = Pending
    /\ IdleIdent /\ IdleType /\ IdleCompile /\ IdleDrift /\ IdlePath /\ IdleCache /\ IdleCreate

\* the loop test: one more attempt, or the throw after the loop
RetryLoop ==
    /\ rpc = "loop"
    /\ IF attempt < maxRetries
       THEN rpc' = "try" /\ UNCHANGED <<rEvents, rOutcome>>
       ELSE /\ rOutcome' = Raised(lastError)
            /\ rEvents' = Append(rEvents, [kind |-> "throw", attempt |-> attempt])
            /\ rpc' = "done"
    /\ UNCHANGED <<maxRetries, attempt, lastError, identVars, typeVars, compileVars, driftVars,
                   pathVars, cacheVars, createVars>>

\* return await fn(), and the catch block up to the wait
RetryAttempt ==
    /\ rpc = "try"
    /\ \/ /\ rEvents' = rEvents \o << [kind |-> "call", attempt |-> attempt, ok |-> TRUE],
                                        [kind |-> "return", attempt |-> attempt] >>
          /\ rOutcome' = Returned([from |-> attempt])
          /\ rpc' = "done"
          /\ UNCHANGED lastError
       \/ \E e \in ThrownByFn :
            LET error == [thrown |-> e, at |-> attempt]
            IN  /\ lastError' = error
                /\ IF isRateLimited(e)
                   THEN /\ rEvents' = Append(rEvents, [kind |-> "call", attempt |-> attempt,
                                                            ok |-> FALSE, error |-> error])
                        /\ rpc' = "wait"
                        /\ UNCHANGED rOutcome
                   ELSE /\ rEvents' = rEvents \o << [kind |-> "call", attempt |-> attempt,
                                                      ok |-> FALSE, error |-> error],
                                                     [kind |-> "throw", attempt |-> attempt] >>
                        /\ rOutcome' = Raised(error)
                        /\ rpc' = "done"
    /\ UNCHANGED <<maxRetries, attempt, identVars, typeVars, compileVars, driftVars, pathVars, cacheVars, createVars>>

\* await new Promise((resolve) => setTimeout(resolve, waitTime)); continue
RetryWait ==
    /\ rpc = "wait"
    /\ rEvents' = Append(rEvents, [kind |-> "wait", attempt |-> attempt,
                                    ms |-> waitTime(lastError.thrown, attempt)])
    /\ attempt' = attempt + 1
    /\ rpc' = "loop"
    /\ UNCHANGED <<maxRetries, lastError, rOutcome, identVars, typeVars, compileVars, driftVars,
                   pathVars, cacheVars, createVars>>

NextRetry ==
    \/ RetryLoop
    \/ RetryAttempt
    \/ RetryWait

SpecRetry == InitRetry /\ [][NextRetry]_vars

-----------------------------------------------------------------------------
(* utils/cache.ts: calls of cachedFetch(key, fetchFn, ttl, skipCache), one after the other,
   on a Keyv store *)

CacheKeys == { <<"c","o","n","t","e","x","t","7",":","r","e","a","c","t",":","h","o","o","k","s">>, <<"c","o","n","t","e","x","t","7",":","v","u","e",":","r","e","f","s">> }

\* what fetchFn() can resolve to
FetchResults == { <<"d","o","c","s">>, Undefined }

\* the ttl arguments: 0 (no expiry in Keyv) and a lifetime
TtlArgs == { 0, 1 }

\* the time that passes before a call
Delays == { 0, 1, 2 }

NoEntry == [present |-> FALSE, value |-> Undefined, hasExpiry |-> FALSE, expires |-> 0]

\* Keyv.get: the value of a present entry that has not expired
keyvGet(entries, key, time) ==
    IF entries[key].present /\ ~(entries[key].hasExpiry /\ time > entries[key].expires)
    THEN entries[key].value
    ELSE Undefined

\* Keyv.get deletes an entry it finds expired
keyvAfterGet(entries, key, time) ==
    IF entries[key].present /\ entries[key].hasExpiry /\ time > entries[key].expires
    THEN [entries EXCEPT ![key] = NoEntry]
    ELSE entries

\* Keyv.set: the entry expires at time + ttl, never when ttl is 0
keyvSet(entries, key, value, ttl, time) ==
    [entries EXCEPT ![key] = [present |-> TRUE, value |-> value,
                              hasExpiry |-> ttl # 0, expires |-> time + ttl]]

\* a cachedFetch that consults the cache whatever skipCache says
readsCache_always(skipCache) == TRUE

\* if (!skipCache)
readsCache(skipCache) == ~skipCache

NoCall == [started |-> FALSE]

InitCache ==
    /\ store = [k \in CacheKeys |-> NoEntry]
    /\ now = 0 /\ cpc = "idle" /\ cur = NoCall /\ prev = NoCall /\ cCount = 0
    /\ IdleIdent /\ IdleType /\ IdleCompile /\ IdleDrift /\ IdlePath /\ IdleRetry /\ IdleCreate

\* a call of cachedFetch begins, once the call before has ended
CallCachedFetch ==
    /\ cpc \in {"idle", "done"}
    /\ cCount < MaxCalls
    /\ \E key \in CacheKeys, ttl \in TtlArgs, skipCache \in BOOLEAN, d \in Delays :
        /\ now' = now + d
        /\ cur' = [started |-> TRUE, key |-> key, ttl |-> ttl, skipCache |-> skipCache,
                   at |-> now + d, entry |-> store[key],
                   getFailed |-> FALSE, setFailed |-> FALSE, cached |-> Undefined,
                   fetched |-> FALSE, threw |-> FALSE, result |-> Undefined,
                   outcome |-> Pending]
        /\ cpc' = IF readsCache(skipCache) THEN "get" ELSE "fetch"
    /\ prev' = cur
    /\ cCount' = cCount + 1
    /\ UNCHANGED <<store, identVars, typeVars, compileVars, driftVars, pathVars, retryVars, createVars>>

\* const cached = await cacheGet(key); if (cached !== undefined) return cached
\* cacheGet gives undefined when the cache fails
CacheGet ==
    /\ cpc = "get"
    /\ \/ LET cached == keyvGet(store, cur.key, now)
          IN  /\ store' = keyvAfterGet(store, cur.key, now)
              /\ IF cached # Undefined
                 THEN /\ cur' = [cur EXCEPT !.cached = cached, !.outcome = Returned(cached)]
                      /\ cpc' = "done"
                 ELSE /\ cur' = cur
                      /\ cpc' = "fetch"
       \/ /\ cur' = [cur EXCEPT !.getFailed = TRUE]
          /\ cpc' = "fetch"
          /\ UNCHANGED store
    /\ UNCHANGED <<now, prev, cCount, identVars, typeVars, compileVars, driftVars, pathVars,
                   retryVars, createVars>>

\* const result = await fetchFn()
Fetch ==
    /\ cpc = "fetch"
    /\ \/ \E result \in FetchResults :
            /\ cur' = [cur EXCEPT !.fetched = TRUE, !.result = result]
            /\ cpc' = "set"
       \/ /\ cur' = [cur EXCEPT !.fetched = TRUE, !.threw = TRUE,
                                 !.outcome = Raised(<<"f","e","t","c","h"," ","f","a","i","l","e","d">>)]
          /\ cpc' = "done"
    /\ UNCHANGED <<store, now, prev, cCount, identVars, typeVars, compileVars, driftVars,
                   pathVars, retryVars, createVars>>

\* await cacheSet(key, result, ttl); return result
\* cacheSet does nothing when the cache fails
CacheSet ==
    /\ cpc = "set"
    /\ \/ /\ store' = keyvSet(store, cur.key, cur.result, cur.ttl, now)
          /\ cur' = [cur EXCEPT !.outcome = Returned(cur.result)]
       \/ /\ cur' = [cur EXCEPT !.setFailed = TRUE, !.outcome = Returned(cur.result)]
          /\ UNCHANGED store
    /\ cpc' = "done"
    /\ UNCHANGED <<now, prev, cCount, identVars, typeVars, compileVars, driftVars, pathVars,
                   retryVars, createVars>>

NextCache ==
    \/ CallCachedFetch
    \/ CacheGet
    \/ Fetch
    \/ CacheSet

SpecCache == InitCache /\ [][NextCache]_vars

-----------------------------------------------------------------------------
(* commands/gen/drift.ts: one run of 'gen drift <type> <name> [-c spec] [-o path]' *)

VALID_TYPES == { <<"t","a","b","l","e">>, <<"d","a","o">>, <<"m","i","g","r","a","t","i","o","n">> }

DriftTypeArgs == VALID_TYPES \cup { <<"v","i","e","w">> }

DriftNameArgs == { <<"R","e","c","i","p","e","s">>, <<"t","a","b","l","e","-","n","a","m","e">> }

DriftColumnsArgs == { Undefined, <<>>, <<"i","d",":","i","n","t",":","p","k",",","t","i","t","l","e",":","t","e","x","t">>, <<"n","a","m","e">>, <<"n","o","t","e",":","t","e","x","t",":","d","e","f","a","u","l","t","(","O","'","B","r","i","e","n",")">> }

DriftOutputArgs ==
    { Undefined, <<>>, <<"o","u","t",".","d","a","r","t">>, <<".","/","l","i","b","/","o","u","t",".","d","a","r","t">>, <<".",".","/","o","u","t",".","d","a","r","t">>, <<"l","i","b","/",".",".","/",".",".","/","o","u","t",".","d","a","r","t">>,
      <<"/","e","t","c","/","p","a","s","s","w","d">>, <<"/","h","o","m","e","/","a","p","p","/","l","i","b","/","o","u","t",".","d","a","r","t">>, <<".",".","c","a","c","h","e","/","o","u","t",".","d","a","r","t">> }

\* what renderTemplate('drift', type, context) returns: the text of a template kept outside the model
renderedTemplate(type) == <<"template drift">> \o type

\* handleError(error): print the error and process.exit with its code
handleError(error) == [kind |-> "exit", code |-> error.exitCode]

InitDrift ==
    /\ \E t \in DriftTypeArgs, n \in DriftNameArgs, c \in DriftColumnsArgs, o \in DriftOutputArgs :
         dArgs = [type |-> t, name |-> n, columns |-> c, output |-> o]
    /\ dpc = "start" /\ dOut = <<>> /\ events = <<>>
    /\ IdleIdent /\ IdleType /\ IdleCompile /\ IdlePath /\ IdleRetry /\ IdleCache /\ IdleCreate

\* from the entry to the output text: the type check and the generation
DriftGenerate ==
    /\ dpc = "start"
    /\ LET invalidType == CLIError("Invalid type: ", dArgs.type, 1, "Valid types: table, dao, migration")
           noColumns == CLIError("Columns specification required for table generation", <<>>, 1,
                            "Use --columns \"id:int:pk,title:text,userId:uuid:fk(auth.users)\"")
           cols == parseColumnSpec(dArgs.columns)
       IN  IF dArgs.type \notin VALID_TYPES
           THEN /\ events' = Append(events, handleError(invalidType))
                /\ dpc' = "exited" /\ UNCHANGED dOut
           ELSE IF dArgs.type = <<"t","a","b","l","e">>
           THEN IF dArgs.columns = Undefined \/ dArgs.columns = <<>>
                THEN /\ events' = Append(events, handleError(noColumns))
                     /\ dpc' = "exited" /\ UNCHANGED dOut
                ELSE IF ~cols.ok
                THEN /\ events' = Append(events, handleError(cols.error))
                     /\ dpc' = "exited" /\ UNCHANGED dOut
                ELSE LET text == columnsToDrift(dArgs.name, cols.value)
                     IN  IF text.ok
                         THEN dOut' = text.value /\ dpc' = "generated" /\ UNCHANGED events
                         ELSE /\ events' = Append(events, handleError(text.error))
                              /\ dpc' = "exited" /\ UNCHANGED dOut
           ELSE \/ dOut' = renderedTemplate(dArgs.type) /\ dpc' = "generated" /\ UNCHANGED events
                \/ /\ events' = Append(events, [kind |-> "exit", code |-> GENERAL_ERROR])
                   /\ dpc' = "exited" /\ UNCHANGED dOut
    /\ UNCHANGED <<dArgs, identVars, typeVars, compileVars, pathVars, retryVars, cacheVars, createVars>>

\* the output step: writeFile(options.output, output), or console.log(output)
DriftOutput ==
    /\ dpc = "generated"
    /\ IF dArgs.output # Undefined /\ dArgs.output # <<>>
       THEN \/ /\ events' = events \o << [kind |-> "write", path |-> dArgs.output],
                                         [kind |-> "log", path |-> dArgs.output] >>
               /\ dpc' = "done"
            \/ /\ events' = events \o << [kind |-> "writeFailed", path |-> dArgs.output],
                                         [kind |-> "exit", code |-> GENERAL_ERROR] >>
               /\ dpc' = "exited"
       ELSE /\ events' = Append(events, [kind |-> "print"])
            /\ dpc' = "done"
    /\ UNCHANGED <<dArgs, dOut, identVars, typeVars, compileVars, pathVars, retryVars, cacheVars, createVars>>

NextDrift ==
    \/ DriftGenerate
    \/ DriftOutput

SpecDrift == InitDrift /\ [][NextDrift]_vars

-----------------------------------------------------------------------------
(* commands/supabase: one run of 'supabase create-table <name> [-c spec]' *)

CreateNameArgs ==
    { <<"u","s","e","r","s">>, <<"U","s","e","r","P","o","s","t","s">>, <<"u","s","e","r","_","p","o","s","t","s">>, <<"u","s","e","r","P","o","s","t","s">>, <<"p","o","s","t","s">>, <<"R","e","c","i","p","e","s">>, <<"t","a","b","l","e","-","n","a","m","e">>, <<"_","d","r","a","f","t","s">> }

CreateColumnsArgs ==
    { Undefined, <<>>, <<"i","d",":","u","u","i","d",":","p","k",",","t","i","t","l","e",":","t","e","x","t">>, <<"t","i","t","l","e",":","t","e","x","t">>, <<"i","d",":","i","n","t",":","p","k",":","a","u","t","o","i","n","c","r","e","m","e","n","t">>, <<"n","a","m","e">>,
      <<"u","s","e","r","I","d",":","u","u","i","d",":","f","k","(","a","u","t","h",".","u","s","e","r","s",")">>, <<"n","o","t","e",":","t","e","x","t",":","b","o","g","u","s">> }

\* pc.cyan(text)
cyan(text) == <<"\\x1b[36m">> \o text \o <<"\\x1b[39m">>

\* the process.exit of handleError: the exit code of a CLIError, GENERAL_ERROR for any other
exitOf(error) == IF Has(error, "exitCode") THEN handleError(error).code ELSE GENERAL_ERROR

InitCreate ==
    /\ \E n \in CreateNameArgs, c \in CreateColumnsArgs : tArgs = [name |-> n, columns |-> c]
    /\ tpc = "start" /\ tOut = <<>> /\ tExit = Undefined
    /\ IdleIdent /\ IdleType /\ IdleCompile /\ IdleDrift /\ IdlePath /\ IdleRetry /\ IdleCache

\* `ALTER TABLE ${name} ENABLE ROW LEVEL SECURITY;`
alterTable(table) == <<"A","L","T","E","R"," ","T","A","B","L","E"," ">> \o table \o <<" ","E","N","A","B","L","E"," ","R","O","W"," ","L","E","V","E","L"," ","S","E","C","U","R","I","T","Y",";">>

\* the action of the command
CreateTable ==
    /\ tpc = "start"
    /\ LET noColumns == CLIError("Columns specification required", <<>>, 1,
                            "Use --columns \"id:uuid:pk,title:text,user_id:uuid:fk(auth.users)\"")
           cols == parseColumnSpec(tArgs.columns)
           text == columnsToSQL(tArgs.name, cols.value)
       IN  IF tArgs.columns = Undefined \/ tArgs.columns = <<>>
           THEN tExit' = exitOf(noColumns) /\ tpc' = "exited" /\ UNCHANGED tOut
           ELSE IF ~cols.ok
           THEN tExit' = exitOf(cols.error) /\ tpc' = "exited" /\ UNCHANGED tOut
           ELSE IF ~text.ok
           THEN tExit' = exitOf(text.error) /\ tpc' = "exited" /\ UNCHANGED tOut
           ELSE /\ tOut' = << cyan(<<"-","-"," ","M","i","g","r","a","t","i","o","n",":"," ","c","r","e","a","t","e","_">> \o tArgs.name \o <<"_","t","a","b","l","e">>),
                              text.value,
                              <<"\n">> \o <<"-","-"," ","E","n","a","b","l","e"," ","R","L","S">>,
                              alterTable(tArgs.name) >>
                /\ tpc' = "done" /\ UNCHANGED tExit
    /\ UNCHANGED <<tArgs, identVars, typeVars, compileVars, driftVars, pathVars, retryVars,
                   cacheVars>>

NextCreate == CreateTable

SpecCreate == InitCreate /\ [][NextCreate]_vars

-----------------------------------------------------------------------------
(* Properties *)

\* the identifier grammar ^[A-Za-z_][A-Za-z0-9_]*$ stated on the characters
GrammarLetters ==
    { UpperAlpha[i] : i \in 1..Len(UpperAlpha) } \cup { LowerAlpha[i] : i \in 1..Len(LowerAlpha) }

GrammarDigits == { DigitChars[i] : i \in 1..Len(DigitChars) }

MatchesGrammar(s) ==
    /\ s # <<>>
    /\ s[1] \in GrammarLetters \cup {"_"}
    /\ \A i \in 2..Len(s) : s[i] \in GrammarLetters \cup GrammarDigits \cup {"_"}

\* the text of a segment, and whether anything is left of it after trimming
SegText(seg) == join(seg, <<":">>)

NonBlank(seg) == \E k \in 1..Len(SegText(seg)) : SegText(seg)[k] \notin WhiteSpace

\* C1: columnsToSQL raises, and returns no CREATE TABLE text, for every table name
\* outside the identifier grammar, whatever the columns are.
C1_SQLRejectsInvalidTableName ==
    (sql # Pending /\ ~MatchesGrammar(tableName)) => sql.status = "raised"

\* C2: when the column-name field of some segment is outside the identifier grammar,
\* parseColumnSpec followed by columnsToSQL yields no statement.
C2_NoStatementForInvalidColumnName ==
    sql.status = "returned" =>
        \A i \in 1..Len(inSegs) : NonBlank(inSegs[i]) => MatchesGrammar(trim(inSegs[i][1]))

\* the dot-separated components of a foreign-key reference
RefComponents(ref) == LET ps == split(ref, ".") IN { ps[k] : k \in 1..Len(ps) }

\* C3: parseColumnSpec raises for every fk(<ref>) modifier with a component outside the
\* identifier grammar, and returns no descriptor whose foreignKeyTable or foreignKeyColumn
\* has such a component.
C3_ForeignKeyComponentsValidated ==
    /\ (pc # "start" /\ \E j \in 3..Len(inSegs[1]) :
            /\ fkMatch(trim(inSegs[1][j])) # Undefined
            /\ \E c \in RefComponents(fkMatch(trim(inSegs[1][j]))) : ~MatchesGrammar(c))
       => parsed.status = "raised"
    /\ parsed.status = "returned" =>
           \A k \in 1..Len(parsed.value) :
               Has(parsed.value[k], "isForeignKey") =>
                   /\ \A c \in RefComponents(parsed.value[k].foreignKeyTable) : MatchesGrammar(c)
                   /\ MatchesGrammar(parsed.value[k].foreignKeyColumn)

\* C4: columnsToDrift raises, and returns no class text, for every table name outside
\* the identifier grammar.
C4_DriftRejectsInvalidTableName ==
    (drift # Pending /\ ~MatchesGrammar(tableName)) => drift.status = "raised"

\* C5: validateIdentifier(s) is true exactly when s is non-empty, starts with a letter or
\* underscore and continues with letters, digits and underscores; it is false for the empty
\* string, for a leading digit and for any string with a hyphen, dot, space, quote or ';'.
C5_ValidateIdentifierIsGrammar ==
    valid.status = "returned" =>
        /\ valid.value = MatchesGrammar(name)
        /\ (name = <<>> => valid.value = FALSE)
        /\ (name # <<>> /\ name[1] \in GrammarDigits => valid.value = FALSE)
        /\ ((\E i \in 1..Len(name) : name[i] \in {"-", ".", " ", "'", "\"", ";"})
               => valid.value = FALSE)

C5_Witness == valid = Returned(TRUE) /\ name = <<"_","a","7">>

\* C6: in driftAction a file write happens only after validateOutputPath accepted the same
\* path, and a run whose output path escapes the project directory ends in an error
\* without a write.
C6_WriteOnlyAfterValidation ==
    /\ \A i \in 1..Len(events) :
           events[i].kind = "write" =>
               \E j \in 1..(i - 1) :
                   events[j].kind = "validated" /\ events[j].path = events[i].path
    /\ (/\ dpc \in {"done", "exited"}
        /\ dArgs.output # Undefined /\ dArgs.output # <<>>
        /\ ~validateOutputPath(dArgs.output, Cwd).ok)
       => (dpc = "exited" /\ \A i \in 1..Len(events) : events[i].kind # "write")

\* the non-blank segments of the input, by position
NonBlankSegs == { i \in 1..Len(inSegs) : NonBlank(inSegs[i]) }

KthNonBlank(k) ==
    CHOOSE i \in NonBlankSegs : Cardinality({ j \in NonBlankSegs : j <= i }) = k

\* C7: an accepted specification yields exactly one descriptor per segment that is
\* non-empty after trimming, in the order of those segments; empty segments add nothing.
C7_OneDescriptorPerSegmentInOrder ==
    parsed.status = "returned" =>
        /\ Len(parsed.value) = Cardinality(NonBlankSegs)
        /\ \A k \in 1..Len(parsed.value) :
               LET seg == parseColumn(trim(SegText(inSegs[KthNonBlank(k)])))
               IN  seg.ok /\ parsed.value[k] = seg.value

C7_Witness ==
    /\ parsed.status = "returned"
    /\ Len(inSegs) = 3 /\ ~NonBlank(inSegs[2])
    /\ Len(parsed.value) = 2
    /\ parsed.value[1].name = <<"i","d">> /\ parsed.value[2].name = <<"e","m","a","i","l">>

\* the reference of a modifier written as fk(<ref>) or FK(<ref>), Undefined for any other
RefOfToken(m) ==
    IF \E r \in FkRefPool : m \in {<<"f","k","(">> \o r \o <<")">>, <<"F","K","(">> \o r \o <<")">>}
    THEN CHOOSE r \in FkRefPool : m \in {<<"f","k","(">> \o r \o <<")">>, <<"F","K","(">> \o r \o <<")">>}
    ELSE Undefined

FkPositions(seg) == { j \in 3..Len(seg) : RefOfToken(seg[j]) # Undefined }

LastFkRef(seg) ==
    RefOfToken(seg[CHOOSE j \in FkPositions(seg) : \A k \in FkPositions(seg) : k <= j])

LastDot(r) ==
    IF InSeq(".", r)
    THEN CHOOSE i \in 1..Len(r) : r[i] = "." /\ \A j \in (i + 1)..Len(r) : r[j] # "."
    ELSE 0

\* C8: for fk(<ref>) with two or more dot-separated parts foreignKeyColumn is the last part
\* and foreignKeyTable the parts before it rejoined with '.'; with one part foreignKeyTable
\* is that part and foreignKeyColumn is "id"; so a foreign-key descriptor always has a
\* foreignKeyColumn. (Of several fk modifiers on one column the last one decides.)
C8_ForeignKeySplit ==
    parsed.status = "returned" =>
        LET col == parsed.value[1]
            seg == inSegs[1]
            ref == LastFkRef(seg)
            dot == LastDot(ref)
        IN  /\ Has(col, "isForeignKey") <=> FkPositions(seg) # {}
            /\ Has(col, "isForeignKey") => Has(col, "foreignKeyColumn")
            /\ FkPositions(seg) # {} =>
                   IF dot = 0
                   THEN col.foreignKeyTable = ref /\ col.foreignKeyColumn = <<"i","d">>
                   ELSE /\ col.foreignKeyTable = SubSeq(ref, 1, dot - 1)
                        /\ col.foreignKeyColumn = SubSeq(ref, dot + 1, Len(ref))

C8_Witness ==
    /\ parsed.status = "returned"
    /\ \E j \in 3..Len(inSegs[1]) : inSegs[1][j] = <<"f","k","(","a","u","t","h",".","u","s","e","r","s",".","i","d",")">>
    /\ parsed.value[1].foreignKeyTable = <<"a","u","t","h",".","u","s","e","r","s">>
    /\ parsed.value[1].foreignKeyColumn = <<"i","d">>

\* a modifier the specification of the compiler accepts: one parseModifier accepts, and for
\* fk(<ref>) every component of the reference inside the identifier grammar
ValidModifier(m) ==
    /\ parseModifier([name |-> <<"c">>, type |-> <<"t","e","x","t">>], m).ok
    /\ fkMatch(m) # Undefined => \A c \in RefComponents(fkMatch(m)) : MatchesGrammar(c)

\* a non-blank segment the specification of the compiler calls invalid
InvalidSegment(seg) ==
    LET fields == [j \in 1..Len(seg) |-> trim(seg[j])]
    IN  \/ Len(fields) < 2
        \/ fields[1] = <<>> \/ fields[2] = <<>>
        \/ ~MatchesGrammar(fields[1])
        \/ \E j \in 3..Len(fields) : ~ValidModifier(fields[j])

FirstInvalidSegment ==
    IF \E i \in NonBlankSegs : InvalidSegment(inSegs[i])
    THEN CHOOSE i \in NonBlankSegs :
             /\ InvalidSegment(inSegs[i])
             /\ \A j \in NonBlankSegs : InvalidSegment(inSegs[j]) => i <= j
    ELSE 0

\* C9: when some segment is invalid, parseColumnSpec raises at the first invalid segment,
\* returns no descriptors, and does not go on to the segments after it.
C9_FailsAtFirstInvalidSegment ==
    (pc \in {"parsed", "thrown"} /\ FirstInvalidSegment # 0) =>
        /\ parsed.status = "raised"
        /\ idx = FirstInvalidSegment

\* the alias table as the specification lists it
AliasGroups ==
    { <<{<<"s","t","r">>, <<"s","t","r","i","n","g">>, <<"v","a","r","c","h","a","r">>, <<"c","h","a","r">>}, <<"t","e","x","t">>>>,
      <<{<<"i","n","t">>, <<"n","u","m","b","e","r">>}, <<"i","n","t","e","g","e","r">>>>,
      <<{<<"b","i","g","i","n","t">>}, <<"b","i","g","i","n","t">>>>,
      <<{<<"f","l","o","a","t">>, <<"d","o","u","b","l","e">>, <<"d","e","c","i","m","a","l">>}, <<"r","e","a","l">>>>,
      <<{<<"b","o","o","l">>, <<"b","o","o","l","e","a","n">>}, <<"b","o","o","l","e","a","n">>>>,
      <<{<<"d","a","t","e">>, <<"t","i","m","e","s","t","a","m","p">>, <<"t","i","m","e","s","t","a","m","p","t","z">>, <<"t","i","m","e">>, <<"d","a","t","e","t","i","m","e">>}, <<"d","a","t","e","t","i","m","e">>>>,
      <<{<<"u","u","i","d">>}, <<"u","u","i","d">>>>,
      <<{<<"j","s","o","n">>, <<"j","s","o","n","b">>}, <<"j","s","o","n","b">>>>,
      <<{<<"b","l","o","b">>, <<"b","y","t","e","s">>, <<"b","i","n","a","r","y">>}, <<"b","l","o","b">>>> }

ExpectedType(raw) ==
    IF \E g \in AliasGroups : toLowerCase(raw) \in g[1]
    THEN (CHOOSE g \in AliasGroups : toLowerCase(raw) \in g[1])[2]
    ELSE toLowerCase(raw)

\* C10: normalization maps every listed alias, in any letter case, to its normalized type
\* and every other raw type name to that name lower-cased.
C10_TypeNormalization ==
    normType.status = "returned" => normType.value = ExpectedType(rawType)

\* C11: type normalization is idempotent: for every raw type name, normalizing the
\* normalized name returns it unchanged (normalize(normalize(t)) = normalize(t)).
C11_NormalizeIdempotent ==
    normTwice # Pending => normTwice = Returned(normType.value)

\* the closed set of normalized types
ClosedTypes ==
    { <<"i","n","t","e","g","e","r">>, <<"b","i","g","i","n","t">>, <<"t","e","x","t">>, <<"b","o","o","l","e","a","n">>, <<"r","e","a","l">>, <<"d","a","t","e","t","i","m","e">>, <<"u","u","i","d">>, <<"j","s","o","n","b">>, <<"b","l","o","b">> }

\* the aliases of the table, as the specification lists them
ListedAliases == UNION { g[1] : g \in AliasGroups }

\* C12 (as claimed): every descriptor returned by parseColumnSpec has a type in the closed
\* set {integer, bigint, text, boolean, real, datetime, uuid, jsonb, blob}.
C12_TypeInClosedSet ==
    parsed.status = "returned" =>
        \A k \in 1..Len(parsed.value) : parsed.value[k].type \in ClosedTypes

\* C12 (amended): the type of a returned descriptor is in the closed set exactly when the
\* raw type name, trimmed and lower-cased, is a listed alias or a member of the set; any
\* other raw type name is accepted as well (no specification of this run is rejected), and
\* its descriptor's type lies outside the set.
C12_TypeInClosedSetForAliases ==
    /\ parsed.status = "returned" =>
           \A k \in 1..Len(parsed.value) :
               LET raw == toLowerCase(trim(inSegs[KthNonBlank(k)][2]))
               IN  parsed.value[k].type \in ClosedTypes <=> raw \in ListedAliases \cup ClosedTypes
    /\ pc # "start" => parsed.status = "returned"

C12_Witness ==
    /\ parsed.status = "returned" /\ Len(parsed.value) = 1
    /\ inSegs[1][2] = <<"B","o","o","l">> /\ parsed.value[1].type = <<"b","o","o","l","e","a","n">>

\* the keywords of the modifier grammar
ModifierKeywords ==
    { <<"p","k">>, <<"p","r","i","m","a","r","y","k","e","y">>, <<"p","r","i","m","a","r","y","_","k","e","y">>, <<"a","u","t","o","i","n","c","r","e","m","e","n","t">>, <<"a","u","t","o","_","i","n","c","r","e","m","e","n","t">>, <<"s","e","r","i","a","l">>,
      <<"n","u","l","l","a","b","l","e">>, <<"n","u","l","l">> }

\* a token written as <word>(...) around at least one character, the word compared
\* without regard to case
HasCallForm(token, word) ==
    /\ Len(token) >= Len(word) + 3
    /\ toLowerCase(SubSeq(token, 1, Len(word) + 1)) = word \o <<"(">>
    /\ token[Len(token)] = ")"

KnownModifierToken(token) ==
    \/ toLowerCase(token) \in ModifierKeywords
    \/ HasCallForm(token, <<"f","k">>)
    \/ HasCallForm(token, <<"d","e","f","a","u","l","t">>)

\* the fields of a segment as the user wrote them, trimmed
TrimmedFields(seg) == [j \in 1..Len(seg) |-> trim(seg[j])]

UnknownTokenPositions(seg) ==
    { j \in 3..Len(seg) : ~KnownModifierToken(TrimmedFields(seg)[j]) }

\* a non-blank segment with fewer than two fields, an empty name or type, or an unknown token
MalformedSegment(seg) ==
    \/ Len(seg) < 2
    \/ TrimmedFields(seg)[1] = <<>> \/ TrimmedFields(seg)[2] = <<>>
    \/ UnknownTokenPositions(seg) # {}

FirstMalformedSegment ==
    CHOOSE i \in NonBlankSegs :
        /\ MalformedSegment(inSegs[i])
        /\ \A j \in NonBlankSegs : MalformedSegment(inSegs[j]) => i <= j

\* C13: parseColumnSpec raises a typed CLI error (message, exit code, hint) whenever a
\* non-empty segment has fewer than two colon-delimited fields, an empty name or type after
\* trimming, or a third-or-later token that is no keyword (in any letter case), fk(...) or
\* default(...); the unknown-modifier error quotes the token and names the valid set.
C13_MalformedSegmentRaises ==
    (pc \in {"parsed", "thrown"} /\ \E i \in NonBlankSegs : MalformedSegment(inSegs[i])) =>
        LET seg == inSegs[FirstMalformedSegment]
            err == parsed.error
        IN  /\ parsed.status = "raised"
            /\ err.name = "CLIError" /\ err.exitCode \in Nat /\ err.hint # ""
            /\ IF Len(seg) < 2
               THEN err.message = <<"Invalid column definition: ", trim(SegText(seg))>>
               ELSE IF TrimmedFields(seg)[1] = <<>> \/ TrimmedFields(seg)[2] = <<>>
               THEN err.message = <<"Missing name or type in column: ", trim(SegText(seg))>>
               ELSE /\ err.message[1] = "Unknown modifier: "
                    /\ \E j \in UnknownTokenPositions(seg) :
                          /\ err.message[2] = TrimmedFields(seg)[j]
                          /\ \A k \in UnknownTokenPositions(seg) : j <= k
                    /\ err.hint = "Valid modifiers: pk, fk(table.column), nullable, default(value), autoincrement"

C13_Witness ==
    /\ parsed.status = "raised"
    /\ parsed.error.message = <<"Unknown modifier: ", <<"b","o","g","u","s">>>>
    /\ Len(inSegs) = 2 /\ inSegs[1] = <<<<"i","d">>, <<"i","n","t">>, <<"p","k">>>>

\* the components a list of path components denotes once '.' and '..' are applied, '..' at
\* the root staying at the root
RECURSIVE Canonical(_)
Canonical(segs) ==
    IF segs = <<>> THEN <<>>
    ELSE LET front == Canonical(SubSeq(segs, 1, Len(segs) - 1))
             last == segs[Len(segs)]
         IN  IF last = <<".">> THEN front
             ELSE IF last = <<".",".">>
             THEN (IF front = <<>> THEN front ELSE SubSeq(front, 1, Len(front) - 1))
             ELSE Append(front, last)

\* where the user's path points: from the root when absolute, from the base directory otherwise
Resolution ==
    Canonical((IF pathParts.abs THEN <<>> ELSE pathParts.base) \o pathParts.segs)

\* the resolution is the base directory or lies below it
WithinBase ==
    /\ Len(Resolution) >= Len(pathParts.base)
    /\ SubSeq(Resolution, 1, Len(pathParts.base)) = pathParts.base

\* C14: validateOutputPath never returns a path outside baseDir: a returned value is the
\* normalized absolute resolution of userPath against baseDir and lies at or below baseDir,
\* and every userPath that resolves outside baseDir raises a CLIError.
C14_NeverReturnsOutsideBase ==
    /\ validated.status = "returned" =>
           /\ validated.value = <<"/">> \o join(Resolution, <<"/">>)
           /\ WithinBase
    /\ (validated # Pending /\ ~WithinBase) =>
           (validated.status = "raised" /\ validated.error.name = "CLIError")

C14_Witness ==
    /\ validated.status = "raised"
    /\ userPath = <<"l","i","b","/",".",".","/",".",".">> /\ baseDir = <<"/","h","o","m","e","/","a","p","p">>

\* C15: validateOutputPath returns without raising for every userPath whose resolution
\* against baseDir lies at or below baseDir, names whose first segment merely begins with
\* two dots (such as '..cache/out.ts') included.
C15_AcceptsEveryPathWithinBase ==
    (validated # Pending /\ WithinBase) => validated.status = "returned"

\* sub occurs in s
IsSubstring(sub, s) ==
    \E i \in 1..(Len(s) - Len(sub) + 1) : SubSeq(s, i, i + Len(sub) - 1) = sub

\* v with a backslash put before every single quote
RECURSIVE EscapeQuotes(_)
EscapeQuotes(v) ==
    IF v = <<>> THEN <<>>
    ELSE (IF Head(v) = "'" THEN <<"\\","'">> ELSE <<Head(v)>>) \o EscapeQuotes(Tail(v))

NumericOrBoolean == { <<"b","o","o","l","e","a","n">>, <<"i","n","t","e","g","e","r">>, <<"r","e","a","l">>, <<"b","i","g","i","n","t">> }

\* C16: columnsToDrift escapes string defaults: for a column whose type is not
\* boolean/integer/real/bigint and whose default is not now()/now, the emitted text is
\* .withDefault(const Constant('<v>')) with <v> the raw default, every single quote
\* replaced by backslash-quote.
C16_DriftEscapesStringDefault ==
    drift.status = "returned" =>
        \A k \in 1..Len(parsed.value) :
            LET col == parsed.value[k]
            IN  (/\ Has(col, "defaultValue")
                 /\ col.type \notin NumericOrBoolean
                 /\ col.defaultValue \notin {<<"n","o","w","(",")">>, <<"n","o","w">>})
                => IsSubstring(<<".","w","i","t","h","D","e","f","a","u","l","t","(","c","o","n","s","t"," ","C","o","n","s","t","a","n","t","(","'">> \o EscapeQuotes(col.defaultValue)
                                   \o <<"'",")",")">>, drift.value)

Separators == WhiteSpace \cup {"-"}

\* what position i of a name contributes: an upper-case letter '_' and its lower-case form,
\* the first character of a run of hyphens and white space '_', the rest of the run nothing
SnakePiece(s, i) ==
    IF s[i] \in GrammarLetters /\ toLowerCaseChar(s[i]) # s[i] THEN <<"_", toLowerCaseChar(s[i])>>
    ELSE IF s[i] \in Separators
    THEN (IF i > 1 /\ s[i - 1] \in Separators THEN <<>> ELSE <<"_">>)
    ELSE <<s[i]>>

RECURSIVE SnakePieces(_, _)
SnakePieces(s, n) == IF n = 0 THEN <<>> ELSE SnakePieces(s, n - 1) \o SnakePiece(s, n)

\* the conversion as claimed
ClaimedSnakeCase(s) == SnakePieces(s, Len(s))

\* the conversion with one leading underscore of the result removed
SnakeCaseSansLeadingUnderscore(s) ==
    LET t == ClaimedSnakeCase(s) IN IF t # <<>> /\ t[1] = "_" THEN Tail(t) ELSE t

\* lower-case letters, digits and underscores only
LowerSnake(s) ==
    \A i \in 1..Len(s) : s[i] \in GrammarDigits \cup {"_"} \/ (s[i] \in GrammarLetters /\ toUpperCaseChar(s[i]) # s[i])

\* the statement of one text column col in table t
OneColumnStatement(t, col) ==
    <<"C","R","E","A","T","E"," ","T","A","B","L","E"," ">> \o t \o <<" ","(">> \o <<"\n">> \o <<" "," ">> \o col \o <<" ","T","E","X","T"," ","N","O","T"," ","N","U","L","L">> \o <<"\n">> \o <<")",";">>

ColumnLine ==
    LET text == sql.value
    IN  SubSeq(text, IndexOf(text, "\n") + 1, Len(text) - 3)

\* the SQL type token of a normalized type, TEXT for any other
SqlTypeToken(type) ==
    CASE type = <<"i","n","t","e","g","e","r">> -> <<"I","N","T","E","G","E","R">>
      [] type = <<"b","i","g","i","n","t">> -> <<"B","I","G","I","N","T">>
      [] type = <<"t","e","x","t">> -> <<"T","E","X","T">>
      [] type = <<"b","o","o","l","e","a","n">> -> <<"B","O","O","L","E","A","N">>
      [] type = <<"r","e","a","l">> -> <<"R","E","A","L">>
      [] type = <<"d","a","t","e","t","i","m","e">> -> <<"T","I","M","E","S","T","A","M","P","T","Z">>
      [] type = <<"u","u","i","d">> -> <<"U","U","I","D">>
      [] type = <<"j","s","o","n","b">> -> <<"J","S","O","N","B">>
      [] type = <<"b","l","o","b">> -> <<"B","Y","T","E","A">>
      [] OTHER -> <<"T","E","X","T">>

\* the start of a column line by the case analysis on isPrimaryKey, isAutoIncrement and
\* isNullable
LineStart(col) ==
    <<" "," ">> \o SnakeCaseSansLeadingUnderscore(col.name) \o <<" ">> \o
    (IF Has(col, "isPrimaryKey") /\ Has(col, "isAutoIncrement")
     THEN (IF col.type = <<"u","u","i","d">> THEN <<"U","U","I","D"," ","D","E","F","A","U","L","T"," ","g","e","n","_","r","a","n","d","o","m","_","u","u","i","d","(",")"," ","P","R","I","M","A","R","Y"," ","K","E","Y">>
           ELSE <<"S","E","R","I","A","L"," ","P","R","I","M","A","R","Y"," ","K","E","Y">>)
     ELSE IF Has(col, "isPrimaryKey") THEN SqlTypeToken(col.type) \o <<" ","P","R","I","M","A","R","Y"," ","K","E","Y">>
     ELSE SqlTypeToken(col.type) \o (IF Has(col, "isNullable") THEN <<>> ELSE <<" ","N","O","T"," ","N","U","L","L">>))

\* what follows the first n characters of a line
After(line, n) == SubSeq(line, n + 1, Len(line))

endsWith(s, suffix) ==
    Len(s) >= Len(suffix) /\ SubSeq(s, Len(s) - Len(suffix) + 1, Len(s)) = suffix

\* C18: each column line starts '<col> UUID DEFAULT gen_random_uuid() PRIMARY KEY' (uuid) or
\* '<col> SERIAL PRIMARY KEY' when isPrimaryKey and isAutoIncrement, '<col> <SQL_TYPE>
\* PRIMARY KEY' when only isPrimaryKey, and otherwise '<col> <SQL_TYPE>' followed by
\* ' NOT NULL' exactly when isNullable is not set; NOT NULL never appears on a primary key.
C18_LineCaseAnalysis ==
    sql.status = "returned" =>
        LET col == parsed.value[1]
            rest == After(ColumnLine, Len(LineStart(col)))
        IN  /\ startsWith(ColumnLine, LineStart(col))
            /\ rest = <<>> \/ startsWith(rest, <<" ","D","E","F","A","U","L","T"," ">>) \/ startsWith(rest, <<" ","R","E","F","E","R","E","N","C","E","S"," ">>)
            /\ Has(col, "isPrimaryKey") => ~IsSubstring(<<" ","N","O","T"," ","N","U","L","L">>, ColumnLine)

C18_Witness ==
    /\ sql.status = "returned"
    /\ inSegs[1] = <<<<"u","s","e","r","I","d">>, <<"u","u","i","d">>, <<"p","k">>, <<"a","u","t","o","i","n","c","r","e","m","e","n","t">>, <<"n","u","l","l","a","b","l","e">>>>
    /\ ColumnLine = <<" "," ","u","s","e","r","_","i","d"," ","U","U","I","D"," ","D","E","F","A","U","L","T"," ","g","e","n","_","r","a","n","d","o","m","_","u","u","i","d","(",")"," ","P","R","I","M","A","R","Y"," ","K","E","Y">>

\* the default of a column as the statement writes it
FormattedDefault(value, type) ==
    IF value \in {<<"n","o","w","(",")">>, <<"n","o","w">>} THEN <<"n","o","w","(",")">>
    ELSE IF type = <<"b","o","o","l","e","a","n">>
    THEN (IF Len(value) = 4
             /\ value[1] \in {"t", "T"} /\ value[2] \in {"r", "R"}
             /\ value[3] \in {"u", "U"} /\ value[4] \in {"e", "E"}
          THEN <<"t","r","u","e">> ELSE <<"f","a","l","s","e">>)
    ELSE IF type \in {<<"i","n","t","e","g","e","r">>, <<"r","e","a","l">>, <<"b","i","g","i","n","t">>} THEN value
    ELSE <<"'">> \o value \o <<"'">>

\* C19: ' DEFAULT <f>' is appended to a column line exactly when defaultValue is present and
\* the column is no primary key, after any NOT NULL and before any REFERENCES; <f> is now()
\* for 'now()' and 'now', else true/false for boolean (true when the value is "true" in any
\* letter case), else the raw value for integer/real/bigint, else the raw value in single
\* quotes, unescaped.
C19_DefaultClause ==
    sql.status = "returned" =>
        LET col == parsed.value[1]
            rest == After(ColumnLine, Len(LineStart(col)))
            clause == <<" ","D","E","F","A","U","L","T"," ">> \o FormattedDefault(col.defaultValue, col.type)
        IN  IF Has(col, "defaultValue") /\ ~Has(col, "isPrimaryKey")
            THEN /\ startsWith(rest, clause)
                 /\ After(rest, Len(clause)) = <<>>
                        \/ startsWith(After(rest, Len(clause)), <<" ","R","E","F","E","R","E","N","C","E","S"," ">>)
            ELSE ~startsWith(rest, <<" ","D","E","F","A","U","L","T"," ">>)

C19_Witness ==
    /\ sql.status = "returned"
    /\ inSegs[1] = <<<<"i","d">>, <<"B","o","o","l">>, <<"d","e","f","a","u","l","t","(","T","R","U","E",")">>, <<"f","k","(","u","s","e","r","s",")">>>>
    /\ ColumnLine = <<" "," ","i","d"," ","B","O","O","L","E","A","N"," ","N","O","T"," ","N","U","L","L"," ","D","E","F","A","U","L","T"," ","t","r","u","e"," ","R","E","F","E","R","E","N","C","E","S"," ","u","s","e","r","s","(","i","d",")"," ","O","N"," ","D","E","L","E","T","E"," ","C","A","S","C","A","D","E">>

\* the reference written in the fk(...) modifier of the column, Undefined without one
WrittenReference ==
    LET seg == inSegs[1]
    IN  IF \E j \in 3..Len(seg) : fkMatch(seg[j]) # Undefined
        THEN fkMatch(seg[CHOOSE j \in 3..Len(seg) : fkMatch(seg[j]) # Undefined])
        ELSE Undefined

\* C20: ' REFERENCES <foreignKeyTable>(<foreignKeyColumn>) ON DELETE CASCADE' is the last
\* clause of a column line exactly when the column is a foreign key with a non-empty
\* foreignKeyTable; parsed from fk(T) with a single part it is 'REFERENCES T(id)', and
\* parsed from fk(T.c) it is 'REFERENCES T(c)'.
C20_ReferencesClause ==
    sql.status = "returned" =>
        LET col == parsed.value[1]
            ref == WrittenReference
            dot == LastDot(ref)
        IN  /\ IF Has(col, "isForeignKey") /\ Has(col, "foreignKeyTable")
                  /\ col.foreignKeyTable # <<>>
               THEN endsWith(ColumnLine, <<" ","R","E","F","E","R","E","N","C","E","S"," ">> \o col.foreignKeyTable \o <<"(">>
                                 \o col.foreignKeyColumn \o <<")"," ","O","N"," ","D","E","L","E","T","E"," ","C","A","S","C","A","D","E">>)
               ELSE ~IsSubstring(<<" ","R","E","F","E","R","E","N","C","E","S"," ">>, ColumnLine)
            /\ (ref # Undefined /\ dot = 0) =>
                   endsWith(ColumnLine, <<" ","R","E","F","E","R","E","N","C","E","S"," ">> \o ref \o <<"(","i","d",")"," ","O","N"," ","D","E","L","E","T","E"," ","C","A","S","C","A","D","E">>)
            /\ (ref # Undefined /\ dot > 1) =>
                   endsWith(ColumnLine, <<" ","R","E","F","E","R","E","N","C","E","S"," ">> \o SubSeq(ref, 1, dot - 1) \o <<"(">>
                                 \o SubSeq(ref, dot + 1, Len(ref)) \o <<")"," ","O","N"," ","D","E","L","E","T","E"," ","C","A","S","C","A","D","E">>)

NameSeparators == WhiteSpace \cup {"-", "_"}

\* what position i of a name contributes to its camel-case form: a separator nothing, the
\* character after a separator its upper-case form, any other character itself
CamelPiece(s, i) ==
    IF s[i] \in NameSeparators THEN <<>>
    ELSE IF i > 1 /\ s[i - 1] \in NameSeparators THEN <<toUpperCaseChar(s[i])>>
    ELSE <<s[i]>>

RECURSIVE CamelPieces(_, _)
CamelPieces(s, n) == IF n = 0 THEN <<>> ELSE CamelPieces(s, n - 1) \o CamelPiece(s, n)

\* camelCase(name): the pieces, the first character in lower case
CamelCaseOf(s) ==
    LET t == CamelPieces(s, Len(s))
    IN  IF t = <<>> THEN t ELSE <<toLowerCaseChar(t[1])>> \o Tail(t)

\* PascalCase(name): the pieces, the first character in upper case
PascalCaseOf(s) ==
    LET t == CamelPieces(s, Len(s))
    IN  IF t = <<>> THEN t ELSE <<toUpperCaseChar(t[1])>> \o Tail(t)

\* the builder type token of a normalized type, text for any other
DriftTypeToken(type) ==
    CASE type = <<"i","n","t","e","g","e","r">> -> <<"i","n","t","e","g","e","r">>
      [] type = <<"b","i","g","i","n","t">> -> <<"i","n","t","6","4">>
      [] type = <<"t","e","x","t">> -> <<"t","e","x","t">>
      [] type = <<"b","o","o","l","e","a","n">> -> <<"b","o","o","l","e","a","n">>
      [] type = <<"r","e","a","l">> -> <<"r","e","a","l">>
      [] type = <<"d","a","t","e","t","i","m","e">> -> <<"d","a","t","e","T","i","m","e">>
      [] type = <<"b","l","o","b">> -> <<"b","l","o","b">>
      [] OTHER -> <<"t","e","x","t">>

\* the declaration of the only column of a returned class: the text between the class line
\* and the closing brace
DriftLine ==
    LET text == drift.value
    IN  SubSeq(text, IndexOf(text, "\n") + 1, Len(text) - 2)

\* the declaration up to the end of .nullable(): the getter and the first two links
DeclarationStart(col) ==
    <<" "," ">> \o DriftTypeToken(col.type) \o <<"C","o","l","u","m","n"," ","g","e","t"," ">> \o CamelCaseOf(col.name) \o <<" ","=",">"," ">>
    \o DriftTypeToken(col.type) \o <<"(",")">>
    \o (IF Has(col, "isPrimaryKey") /\ Has(col, "isAutoIncrement") THEN <<".","a","u","t","o","I","n","c","r","e","m","e","n","t","(",")">> ELSE <<>>)
    \o (IF Has(col, "isNullable") THEN <<".","n","u","l","l","a","b","l","e","(",")">> ELSE <<>>)

\* the token is among the modifiers of the column, at whatever position
Written(token) == \E j \in 3..Len(inSegs[1]) : inSegs[1][j] = token

\* C21: each columnsToDrift declaration is '<driftType>Column get <camelCase(name)> =>
\* <driftType>()', then .autoIncrement() (only with isPrimaryKey and isAutoIncrement), then
\* .nullable() (only with isNullable), then .withDefault(...) (only with a default), then
\* '();', in this order whatever the order the modifiers were written in.
C21_DriftDeclarationChain ==
    drift.status = "returned" =>
        LET col == parsed.value[1]
            rest == After(DriftLine, Len(DeclarationStart(col)))
        IN  /\ startsWith(DriftLine, DeclarationStart(col))
            /\ IF Has(col, "defaultValue")
               THEN startsWith(rest, <<".","w","i","t","h","D","e","f","a","u","l","t","(">>) /\ endsWith(rest, <<")","(",")",";">>)
               ELSE rest = <<"(",")",";">>
            /\ IsSubstring(<<".","a","u","t","o","I","n","c","r","e","m","e","n","t","(",")">>, DriftLine) <=> (Written(<<"p","k">>) /\ Written(<<"a","u","t","o","i","n","c","r","e","m","e","n","t">>))
            /\ IsSubstring(<<".","n","u","l","l","a","b","l","e","(",")">>, DriftLine) <=> Written(<<"n","u","l","l","a","b","l","e">>)
            /\ IsSubstring(<<".","w","i","t","h","D","e","f","a","u","l","t","(">>, DriftLine) <=> Written(<<"d","e","f","a","u","l","t","(","n","o","w","(",")",")">>)

C21_Witness ==
    /\ drift.status = "returned"
    /\ inSegs[1] = <<<<"u","s","e","r","I","d">>, <<"u","u","i","d">>, <<"n","u","l","l","a","b","l","e">>, <<"a","u","t","o","i","n","c","r","e","m","e","n","t">>, <<"p","k">>>>
    /\ DriftLine = <<" "," ","t","e","x","t","C","o","l","u","m","n"," ","g","e","t"," ","u","s","e","r","I","d"," ","=",">"," ","t","e","x","t","(",")",".","a","u","t","o","I","n","c","r","e","m","e","n","t","(",")",".","n","u","l","l","a","b","l","e","(",")","(",")",";">>

\* the last modifier token of the column, and the text between its first '(' and its
\* final ')'
LastToken == inSegs[1][Len(inSegs[1])]

BetweenParentheses(token) == SubSeq(token, IndexOf(token, "(") + 1, Len(token) - 1)

\* C22: for every modifier token default(<value>) with a non-empty <value>, parseColumnSpec
\* sets defaultValue to exactly the text between the first '(' and the final ')' of the
\* token, unmodified and unescaped, values with their own parentheses included.
C22_DefaultCapturedWhole ==
    (pc # "start" /\ HasCallForm(LastToken, <<"d","e","f","a","u","l","t">>)) =>
        /\ parsed.status = "returned"
        /\ Has(parsed.value[1], "defaultValue")
        /\ parsed.value[1].defaultValue = BetweenParentheses(LastToken)


\* the positions of the invocations of fn among the events of the call
Invocations == { i \in DOMAIN rEvents : rEvents[i].kind = "call" }

\* the invocation at position i failed, with an error whose response status is 429
FailedWith429(i) ==
    /\ ~rEvents[i].ok
    /\ rEvents[i].error.thrown.hasResponse
    /\ rEvents[i].error.thrown.statusCode = 429

\* the invocation before the one at position i
PreviousInvocation(i) == CHOOSE j \in Invocations : j < i /\ \A k \in Invocations : k < i => k <= j

\* C23: fn is invoked at most maxRetries times; an invocation other than the first follows a
\* failure with response status 429; a success is returned with no further invocation; any
\* other error is thrown right after its attempt; after maxRetries failures with 429 the
\* error of the last attempt is thrown
C23_RetryOnlyAfterRateLimit ==
    /\ Cardinality(Invocations) <= maxRetries
    /\ \A i \in Invocations :
        /\ (\E j \in Invocations : j < i) => FailedWith429(PreviousInvocation(i))
        /\ rEvents[i].ok =>
              /\ i = Len(rEvents) - 1 /\ rEvents[i + 1].kind = "return"
              /\ rpc = "done" /\ rOutcome = Returned([from |-> rEvents[i].attempt])
        /\ (~rEvents[i].ok /\ ~FailedWith429(i)) =>
              /\ i = Len(rEvents) - 1 /\ rEvents[i + 1].kind = "throw"
              /\ rpc = "done" /\ rOutcome = Raised(rEvents[i].error)
    /\ (rpc = "done" /\ maxRetries > 0 /\ Cardinality(Invocations) = maxRetries
           /\ \A i \in Invocations : FailedWith429(i)) =>
          \E i \in Invocations :
              /\ \A j \in Invocations : j <= i
              /\ rOutcome = Raised(rEvents[i].error)
    /\ (rpc = "done" /\ rOutcome.status = "returned") => (\E i \in Invocations : rEvents[i].ok)

C23_Witness ==
    /\ rpc = "done" /\ maxRetries = 3 /\ Cardinality(Invocations) = 3
    /\ \A i \in Invocations : FailedWith429(i)
    /\ rOutcome = Raised([thrown |-> [isObject |-> TRUE, hasResponse |-> TRUE, statusCode |-> 429,
                                      retryAfter |-> <<"2">>], at |-> 2])

\* C29: every backoff wait is followed by another invocation of fn, so that after the last
\* permitted attempt the error is thrown with no wait in between
C29_NoWaitAfterFinalAttempt ==
    rpc = "done" =>
        \A i \in DOMAIN rEvents :
            rEvents[i].kind = "wait" => (i < Len(rEvents) /\ rEvents[i + 1].kind = "call")

\* the value an entry shows at a time: none once its lifetime is over
Visible(entry, time) ==
    IF entry.present /\ (entry.hasExpiry => time <= entry.expires) THEN entry.value ELSE Undefined

\* what the cache held for the key of this call when the call began (nothing if it failed)
Held == IF cur.getFailed THEN Undefined ELSE Visible(cur.entry, cur.at)

\* a finished call invoked fetchFn exactly when skipCache was set or the cache held no defined
\* value; a hit returns the cached value; a miss returns the fetched result and stores it
\* under the key; a throwing fetchFn leaves the entry of the key as it was
CachedFetchContract ==
    cpc = "done" =>
        /\ cur.fetched <=> (cur.skipCache \/ Held = Undefined)
        /\ ~cur.fetched => cur.outcome = Returned(Held)
        /\ (cur.fetched /\ ~cur.threw) =>
              /\ cur.outcome = Returned(cur.result)
              /\ ~cur.setFailed => Visible(store[cur.key], now) = cur.result
        /\ cur.threw =>
              /\ cur.outcome.status = "raised"
              /\ Visible(store[cur.key], now) = Visible(cur.entry, cur.at)

\* two calls, one after the other, with the same key and skipCache = false, the cache working
\* and the entry the first call left still within its lifetime; the first one missed and its
\* fetchFn returned
SuccessiveCalls ==
    /\ cpc = "done" /\ prev.started
    /\ prev.key = cur.key /\ ~prev.skipCache /\ ~cur.skipCache
    /\ ~prev.getFailed /\ ~prev.setFailed /\ ~cur.getFailed /\ ~cur.setFailed
    /\ prev.fetched /\ ~prev.threw
    /\ cur.entry.present /\ (cur.entry.hasExpiry => cur.at <= cur.entry.expires)

\* the invocations of fetchFn in the two calls
FetchCalls == (IF prev.fetched THEN 1 ELSE 0) + (IF cur.fetched THEN 1 ELSE 0)

\* C24 (as claimed): cachedFetch invokes fetchFn exactly when skipCache is set or the cache
\* holds no defined value; a hit returns the cached value, a miss fetches once, stores and
\* returns the result, a throwing fetchFn leaves the entry unchanged; hence two successive
\* calls with the same key and skipCache = false call fetchFn once
C24_CachedFetchCallsOnce ==
    /\ CachedFetchContract
    /\ SuccessiveCalls => FetchCalls = 1

\* C24 (amended): the same, and two successive calls call fetchFn once when the result of
\* the first is a defined value; the second call then returns that value
C24_CachedFetchCallsOnceForDefinedResult ==
    /\ CachedFetchContract
    /\ (SuccessiveCalls /\ prev.result # Undefined) =>
          (FetchCalls = 1 /\ cur.outcome = Returned(prev.result))

C24_Witness ==
    /\ SuccessiveCalls /\ prev.result = <<"d","o","c","s">> /\ prev.ttl = 1 /\ cur.at = prev.at + 1
    /\ ~cur.fetched /\ cur.outcome = Returned(<<"d","o","c","s">>)

IsWrittenKind(token) == Written(token)

\* the segment with the same name, type and modifier tokens, the tokens in the order of
\* KindTokens
SegmentInListedOrder ==
    SubSeq(inSegs[1], 1, 2) \o SelectSeq(KindTokens, IsWrittenKind)

\* C25: for a column segment whose modifiers are of pairwise different kinds, the descriptor
\* parseColumnSpec returns is the one it returns for the same tokens in one fixed order, and
\* it carries the fields of exactly the kinds written: the order of the tokens does not matter.
C25_ModifierOrderIrrelevant ==
    pc # "start" =>
        /\ parsed.status = "returned"
        /\ parsed = AsResult(parseColumnSpec(SegText(SegmentInListedOrder)))
        /\ LET col == parsed.value[1]
           IN  /\ Has(col, "isPrimaryKey") <=> Written(<<"p","k">>)
               /\ Has(col, "isAutoIncrement") <=> Written(<<"a","u","t","o","i","n","c","r","e","m","e","n","t">>)
               /\ Has(col, "isNullable") <=> Written(<<"n","u","l","l","a","b","l","e">>)
               /\ Has(col, "isForeignKey") <=> Written(<<"f","k","(","a","u","t","h",".","u","s","e","r","s",")">>)
               /\ Has(col, "defaultValue") <=> Written(<<"d","e","f","a","u","l","t","(","n","o","w","(",")",")">>)
               /\ Has(col, "isNullable") => col.isNullable

C25_Witness ==
    /\ pc # "start"
    /\ inSegs[1] = <<<<"u","s","e","r","I","d">>, <<"u","u","i","d">>, <<"d","e","f","a","u","l","t","(","n","o","w","(",")",")">>, <<"f","k","(","a","u","t","h",".","u","s","e","r","s",")">>, <<"n","u","l","l","a","b","l","e">>,
                     <<"a","u","t","o","i","n","c","r","e","m","e","n","t">>, <<"p","k">>>>
    /\ parsed.status = "returned"
    /\ parsed.value[1] = [name |-> <<"u","s","e","r","I","d">>, type |-> <<"u","u","i","d">>, isPrimaryKey |-> TRUE,
                          isAutoIncrement |-> TRUE, isNullable |-> TRUE, isForeignKey |-> TRUE,
                          foreignKeyTable |-> <<"a","u","t","h">>, foreignKeyColumn |-> <<"u","s","e","r","s">>,
                          defaultValue |-> <<"n","o","w","(",")">>]

\* the names written in the texts of a one-column compile with a text column: the table after
\* 'CREATE TABLE ', the column at the start of its line, the class after 'class ', the getter
\* after 'textColumn get '
EmittedSqlTable == SubSeq(sql.value, Len(<<"C","R","E","A","T","E"," ","T","A","B","L","E"," ">>) + 1, IndexOf(sql.value, "\n") - Len(<<" ","(">>) - 1)

EmittedSqlColumn == SubSeq(ColumnLine, 3, Len(ColumnLine) - Len(<<" ","T","E","X","T"," ","N","O","T"," ","N","U","L","L">>))

EmittedDriftClass ==
    SubSeq(drift.value, Len(<<"c","l","a","s","s"," ">>) + 1, IndexOf(drift.value, "\n") - Len(<<" ","e","x","t","e","n","d","s"," ","T","a","b","l","e"," ","{">>) - 1)

EmittedDriftGetter ==
    SubSeq(DriftLine, Len(<<" "," ","t","e","x","t","C","o","l","u","m","n"," ","g","e","t"," ">>) + 1, Len(DriftLine) - Len(<<" ","=",">"," ","t","e","x","t","(",")","(",")",";">>))

\* C26: for names that match ^[A-Za-z_][A-Za-z0-9_]*$, the names columnsToSQL and
\* columnsToDrift emit (snake case, camel case for the getter, Pascal case for the class) are
\* non-empty and match the grammar again
C26_EmittedNamesMatchGrammar ==
    (MatchesGrammar(tableName) /\ MatchesGrammar(inSegs[1][1])) =>
        /\ sql.status = "returned" =>
              (MatchesGrammar(EmittedSqlTable) /\ MatchesGrammar(EmittedSqlColumn))
        /\ drift.status = "returned" =>
              (MatchesGrammar(EmittedDriftClass) /\ MatchesGrammar(EmittedDriftGetter))

\* the lines of the columns in a returned statement: all but the first and the last line
SqlColumnLines ==
    LET lines == split(sql.value, "\n")
    IN  SubSeq(lines, 2, Len(lines) - 1)

\* the name at the start of a column line: what stands between the indentation and the
\* next blank
NameOfLine(line) ==
    LET rest == SubSeq(line, 3, Len(line))
    IN  SubSeq(rest, 1, IndexOf(rest, " ") - 1)

\* C27: for a parsed specification whose column names are pairwise distinct valid
\* identifiers, the column names in the CREATE TABLE text are pairwise distinct
C27_EmittedColumnNamesDistinct ==
    (/\ sql.status = "returned"
     /\ \A i \in 1..Len(inSegs) : MatchesGrammar(inSegs[i][1])
     /\ \A i, j \in 1..Len(inSegs) : i # j => inSegs[i][1] # inSegs[j][1]) =>
        \A i, j \in 1..Len(SqlColumnLines) :
            i # j => NameOfLine(SqlColumnLines[i]) # NameOfLine(SqlColumnLines[j])

\* the table named in the logged CREATE TABLE statement and in the logged ALTER TABLE statement
CreatedTable == SubSeq(tOut[2], Len(<<"C","R","E","A","T","E"," ","T","A","B","L","E"," ">>) + 1, IndexOf(tOut[2], "\n") - Len(<<" ","(">>) - 1)

AlteredTable ==
    SubSeq(tOut[4], Len(<<"A","L","T","E","R"," ","T","A","B","L","E"," ">>) + 1, Len(tOut[4]) - Len(<<" ","E","N","A","B","L","E"," ","R","O","W"," ","L","E","V","E","L"," ","S","E","C","U","R","I","T","Y",";">>))

\* C28: in 'supabase create-table <name>' the table named in the CREATE TABLE statement is the
\* same identifier (unquoted, so up to letter case) as the table named in the ALTER TABLE ...
\* ENABLE ROW LEVEL SECURITY statement after it
C28_SameTableCreatedAndAltered ==
    tpc = "done" =>
        /\ startsWith(tOut[2], <<"C","R","E","A","T","E"," ","T","A","B","L","E"," ">>) /\ startsWith(tOut[4], <<"A","L","T","E","R"," ","T","A","B","L","E"," ">>)
        /\ toLowerCase(CreatedTable) = toLowerCase(AlteredTable)

\* the statement has a DEFAULT clause built from the defaultValue of the column
SqlCarriesDefault ==
    LET col == parsed.value[1]
    IN  /\ Has(col, "defaultValue")
        /\ IsSubstring(<<" ","D","E","F","A","U","L","T"," ">> \o FormattedDefault(col.defaultValue, col.type), ColumnLine)

\* the declaration has a .withDefault(...) link
DriftCarriesDefault == IsSubstring(<<".","w","i","t","h","D","e","f","a","u","l","t","(">>, DriftLine)

\* C30 (as claimed): for every descriptor, columnsToSQL emits a DEFAULT clause built from
\* defaultValue exactly when columnsToDrift emits .withDefault(...), primary keys included
C30_EmittersAgreeOnDefault ==
    (sql.status = "returned" /\ drift.status = "returned") =>
        (SqlCarriesDefault <=> DriftCarriesDefault)

\* C30 (amended): columnsToDrift emits .withDefault(...) exactly when the descriptor has a
\* defaultValue; columnsToSQL emits the DEFAULT clause exactly when it has one and is no
\* primary key; so the emitters agree on every column that is no primary key
C30_EmittersAgreeOnDefaultExceptPrimaryKey ==
    (sql.status = "returned" /\ drift.status = "returned") =>
        LET col == parsed.value[1]
        IN  /\ DriftCarriesDefault <=> Written(<<"d","e","f","a","u","l","t","(","n","o","w","(",")",")">>)
            /\ SqlCarriesDefault <=> (Written(<<"d","e","f","a","u","l","t","(","n","o","w","(",")",")">>) /\ ~Written(<<"p","k">>))
            /\ ~Written(<<"p","k">>) => (SqlCarriesDefault <=> DriftCarriesDefault)

C30_Witness ==
    /\ sql.status = "returned" /\ drift.status = "returned"
    /\ inSegs[1] = <<<<"u","s","e","r","I","d">>, <<"i","n","t">>, <<"d","e","f","a","u","l","t","(","n","o","w","(",")",")">>, <<"n","u","l","l","a","b","l","e">>>>
    /\ ColumnLine = <<" "," ","u","s","e","r","_","i","d"," ","I","N","T","E","G","E","R"," ","D","E","F","A","U","L","T"," ","n","o","w","(",")">>
    /\ DriftLine = <<" "," ","i","n","t","e","g","e","r","C","o","l","u","m","n"," ","g","e","t"," ","u","s","e","r","I","d"," ","=",">"," ","i","n","t","e","g","e","r","(",")",".","n","u","l","l","a","b","l","e","(",")",".","w","i","t","h","D","e","f","a","u","l","t","(","c","u","r","r","e","n","t","D","a","t","e","A","n","d","T","i","m","e",")","(",")",";">>
=============================================================================
